---- MODULE Spec2Model ----
(***************************************************************************)
(* Model of PyOpenocdClient's transport core (_PyOpenocdBaseClient):       *)
(* connection life cycle, the framed command/response exchange and its     *)
(* error-to-disconnect escalation; and of PyOpenocdClient.cmd on top.      *)
(* Spec runs the life cycle, SpecX one exchange in detail, SpecC one cmd.  *)
(*                                                                         *)
(* Socket objects are numbered 1, 2, ... in the order socket.socket()      *)
(* hands them out.  Every handler is one action; what the operating        *)
(* system and the peer do during the call (connect refused, close fails,   *)
(* bytes arrive, the clock advances) is an input of the action.            *)
(* Times are whole seconds.  Optional values are <<>> (None) or <<x>>.     *)
(***************************************************************************)
EXTENDS Integers, Sequences, FiniteSets, TLC

VARIABLES
    _socket,                \* self._socket: None or <<id of the socket object>>
    _default_recv_timeout,  \* self._default_recv_timeout
    sockets,                \* socket object id -> "unused" | "created" | "connected" | "closed"
    nsock,                  \* number of socket objects created so far
    last                    \* the last call: its arguments, outcome and socket operations

vars == <<_socket, _default_recv_timeout, sockets, nsock, last>>

\* ---------------------------------------------------------------- bounds

\* Socket objects socket.socket() can hand out in one behaviour.
MaxSockets == 2
\* Longest scripted sequence of clock readings / recv outcomes of one raw_cmd.
MaxScript == 2

\* ------------------------------------------------------------- constants

COMMAND_DELIMITER == 26
MAX_RESPONSE_SIZE == 8 * 1024 * 1024
SEND_TIMEOUT == 3
DEFAULT_RECV_TIMEOUT == 5
RECV_POLL_TIMEOUT == 1
RECV_BLOCK_SIZE == 2048

\* ---------------------------------------------------------------- helpers

None == <<>>
Some(x) == <<x>>

SockIds == 1..MaxSockets

\* An exception object: its class, its message, the value interpolated into
\* the message (if any) and the attributes the raise statement gives it.
Exc(type, msg, msgArg, rawCmd, timeout) ==
    [type |-> type, msg |-> msg, msgArg |-> msgArg, raw_cmd |-> rawCmd, timeout |-> timeout]

NoExc == Exc("none", "", None, None, None)

\* The object a handler works on: the fields of self, the socket objects and,
\* for the call under way, the socket operations performed, the clock
\* readings taken and the raw_cmd calls made through PyOpenocdClient.
Self ==
    [socket |-> _socket, default_recv_timeout |-> _default_recv_timeout,
     sockets |-> sockets, nsock |-> nsock, trace |-> <<>>, clock |-> <<>>, calls |-> <<>>]

\* One socket operation, as the mocked socket of the unit tests records it:
\* the call, the socket object, "ok" or the exception the call raised, and
\* the bytes (or number) handed over.
Log(m, op, s, res, data) ==
    [m EXCEPT !.trace = Append(@, [op |-> op, s |-> s, res |-> res, data |-> data])]

Res(ok) == IF ok THEN "ok" ELSE "OSError"

\* What a handler hands back: the object afterwards, the exception raised
\* ("none" when it returns) and the returned value.
Raise(m, e) == [m |-> m, exc |-> e, ret |-> None]
Return(m, v) == [m |-> m, exc |-> NoExc, ret |-> v]

\* ------------------------------------------------------------------ UTF-8

\* str.encode("utf-8") of one code point that is not a surrogate.
Utf8EncodeChar(c) ==
    IF c < 128 THEN <<c>>
    ELSE IF c < 2048 THEN <<192 + (c \div 64), 128 + (c % 64)>>
    ELSE IF c < 65536 THEN <<224 + (c \div 4096), 128 + ((c \div 64) % 64), 128 + (c % 64)>>
    ELSE <<240 + (c \div 262144), 128 + ((c \div 4096) % 64),
           128 + ((c \div 64) % 64), 128 + (c % 64)>>

RECURSIVE Utf8Encode(_)
Utf8Encode(str) ==
    IF str = <<>> THEN <<>>
    ELSE IF Len(str) = 1 THEN Utf8EncodeChar(str[1])
    ELSE Utf8Encode(SubSeq(str, 1, Len(str) \div 2))
         \o Utf8Encode(SubSeq(str, Len(str) \div 2 + 1, Len(str)))

IsCont(b) == b >= 128 /\ b <= 191

\* bytes.decode("utf-8"), strict: None when the bytes are not valid UTF-8
\* (UnicodeDecodeError), else <<the decoded text>>.  A character begins at
\* every byte that is not a continuation byte: the bytes are decoded in two
\* parts, cut before such a byte near the middle, and bytes that cannot be
\* cut are one character or none.
RECURSIVE Utf8Decode(_)
Utf8Decode(bs) ==
    IF bs = <<>> THEN Some(<<>>)
    ELSE IF \E p \in 2..Len(bs) : ~IsCont(bs[p])
    THEN
      LET mid == Len(bs) \div 2 + 1
          far(p) == IF p < mid THEN mid - p ELSE p - mid
          cut == CHOOSE p \in 2..Len(bs) :
                     /\ ~IsCont(bs[p])
                     /\ \A q \in 2..Len(bs) :
                            ~IsCont(bs[q]) => (far(p) < far(q) \/ (far(p) = far(q) /\ p <= q))
          left == Utf8Decode(SubSeq(bs, 1, cut - 1))
          right == Utf8Decode(SubSeq(bs, cut, Len(bs)))
      IN IF left = None \/ right = None THEN None ELSE Some(left[1] \o right[1])
    ELSE
      LET b == bs[1]
          n == Len(bs)
          k == IF b < 128 THEN 1
               ELSE IF b >= 194 /\ b <= 223 THEN 2
               ELSE IF b >= 224 /\ b <= 239 THEN 3
               ELSE IF b >= 240 /\ b <= 244 THEN 4
               ELSE 0
          wellFormed ==
              /\ k > 0
              /\ n = k
              /\ (b = 224 => bs[2] >= 160)
              /\ (b = 237 => bs[2] <= 159)
              /\ (b = 240 => bs[2] >= 144)
              /\ (b = 244 => bs[2] <= 143)
          c == IF k = 1 THEN b
               ELSE IF k = 2 THEN (b - 192) * 64 + (bs[2] - 128)
               ELSE IF k = 3 THEN (b - 224) * 4096 + (bs[2] - 128) * 64 + (bs[3] - 128)
               ELSE (b - 240) * 262144 + (bs[2] - 128) * 4096 + (bs[3] - 128) * 64 + (bs[4] - 128)
      IN IF ~wellFormed THEN None ELSE Some(<<c>>)

\* bytes.find(delimiter): the first index (from 1) holding the byte, 0 if none.
Find(bs, b) ==
    IF \E i \in 1..Len(bs) : bs[i] = b
    THEN CHOOSE i \in 1..Len(bs) : bs[i] = b /\ \A j \in 1..(i - 1) : bs[j] # b
    ELSE 0

\* ------------------------------------------------------- _PyOpenocdBaseClient

is_connected(m) == m.socket # None

\* _close_socket without its last line: the handle is kept.
_close_socket_keeps_handle(m, disconnect_nicely, env) ==
    LET s == m.socket[1]
        m1 == IF disconnect_nicely THEN Log(m, "shutdown", s, Res(env.shutdownOk), <<>>) ELSE m
        m2 == Log(m1, "close", s, Res(env.closeOk), <<>>)
    IN [m2 EXCEPT !.sockets[s] = "closed"]

\* _close_socket with shutdown and close in one try block: a failing shutdown
\* skips the close and the dropping of the handle.
_close_socket_aborts_on_shutdown_error(m, disconnect_nicely, env) ==
    LET s == m.socket[1]
        m1 == IF disconnect_nicely THEN Log(m, "shutdown", s, Res(env.shutdownOk), <<>>) ELSE m
        m2 == Log(m1, "close", s, Res(env.closeOk), <<>>)
    IN IF disconnect_nicely /\ ~env.shutdownOk THEN m1
       ELSE [m2 EXCEPT !.sockets[s] = "closed", !.socket = None]

\* _close_socket: shutdown (only when asked to disconnect nicely), close, drop
\* the handle; an OSError of either call is swallowed.  Without a handle the
\* assertion at its head fails: the AssertionError is recorded in place of a
\* socket operation and nothing else is done.
_close_socket(m, disconnect_nicely, env) ==
    IF m.socket = None THEN Log(m, "assert", 0, "AssertionError", <<>>)
    ELSE
      LET s == m.socket[1]
          m1 == IF disconnect_nicely THEN Log(m, "shutdown", s, Res(env.shutdownOk), <<>>) ELSE m
          m2 == Log(m1, "close", s, Res(env.closeOk), <<>>)
      IN [m2 EXCEPT !.sockets[s] = "closed", !.socket = None]

\* connect without its "Already connected" check.
connect_no_connected_check(m, env) ==
    LET s == m.nsock + 1
        m1 == Log([m EXCEPT !.nsock = s, !.sockets[s] = "created"], "socket", s, "ok", <<>>)
        m2 == Log(m1, "connect", s, Res(env.connOk), <<>>)
    IN IF ~env.connOk
       THEN Raise(m2, Exc("OcdConnectionError", "Could not connect to OpenOCD", None, None, None))
       ELSE
         LET m3 == [m2 EXCEPT !.sockets[s] = "connected", !.socket = Some(s)]
             m4 == Log(m3, "setsockopt", s, Res(env.optOk), <<>>)
         IN IF ~env.optOk
            THEN Raise(_close_socket(m4, FALSE, env),
                       Exc("OcdConnectionError", "Could not set TCP_NODELAY for the socket",
                           None, None, None))
            ELSE Return(m4, None)

\* connect that stores the handle before s.connect() has succeeded.
connect_stores_handle_early(m, env) ==
    IF is_connected(m)
    THEN Raise(m, Exc("OcdConnectionError", "Already connected", None, None, None))
    ELSE
      LET s == m.nsock + 1
          m1 == Log([m EXCEPT !.nsock = s, !.sockets[s] = "created", !.socket = Some(s)],
                    "socket", s, "ok", <<>>)
          m2 == Log(m1, "connect", s, Res(env.connOk), <<>>)
      IN IF ~env.connOk
         THEN Raise(m2, Exc("OcdConnectionError", "Could not connect to OpenOCD", None, None, None))
         ELSE
           LET m3 == [m2 EXCEPT !.sockets[s] = "connected"]
               m4 == Log(m3, "setsockopt", s, Res(env.optOk), <<>>)
           IN IF ~env.optOk
              THEN Raise(_close_socket(m4, FALSE, env),
                         Exc("OcdConnectionError", "Could not set TCP_NODELAY for the socket",
                             None, None, None))
              ELSE Return(m4, None)

\* connect that connects the socket object of the previous connection anew.
connect_reuses_socket(m, env) ==
    IF is_connected(m)
    THEN Raise(m, Exc("OcdConnectionError", "Already connected", None, None, None))
    ELSE
      LET s == IF m.nsock >= 1 THEN m.nsock ELSE 1
          m1 == Log([m EXCEPT !.nsock = s, !.sockets[s] = "created"], "socket", s, "ok", <<>>)
          m2 == Log(m1, "connect", s, Res(env.connOk), <<>>)
      IN IF ~env.connOk
         THEN Raise(m2, Exc("OcdConnectionError", "Could not connect to OpenOCD", None, None, None))
         ELSE
           LET m3 == [m2 EXCEPT !.sockets[s] = "connected", !.socket = Some(s)]
               m4 == Log(m3, "setsockopt", s, Res(env.optOk), <<>>)
           IN IF ~env.optOk
              THEN Raise(_close_socket(m4, FALSE, env),
                         Exc("OcdConnectionError", "Could not set TCP_NODELAY for the socket",
                             None, None, None))
              ELSE Return(m4, None)

connect(m, env) ==
    IF is_connected(m)
    THEN Raise(m, Exc("OcdConnectionError", "Already connected", None, None, None))
    ELSE
      LET s == m.nsock + 1
          m1 == Log([m EXCEPT !.nsock = s, !.sockets[s] = "created"], "socket", s, "ok", <<>>)
          m2 == Log(m1, "connect", s, Res(env.connOk), <<>>)
      IN IF ~env.connOk
         THEN Raise(m2, Exc("OcdConnectionError", "Could not connect to OpenOCD", None, None, None))
         ELSE
           LET m3 == [m2 EXCEPT !.sockets[s] = "connected", !.socket = Some(s)]
               m4 == Log(m3, "setsockopt", s, Res(env.optOk), <<>>)
           IN IF ~env.optOk
              THEN Raise(_close_socket(m4, FALSE, env),
                         Exc("OcdConnectionError", "Could not set TCP_NODELAY for the socket",
                             None, None, None))
              ELSE Return(m4, None)

\* disconnect that closes the socket without asking whether there is one.
disconnect_always_closes(m, env) ==
    Return(_close_socket(m, TRUE, env), None)

disconnect(m, env) ==
    IF ~is_connected(m)
    THEN Return(m, None)
    ELSE Return(_close_socket(m, TRUE, env), None)

\* reconnect that only connects.
reconnect_without_disconnect(m, env) ==
    connect(m, env)

reconnect(m, env) ==
    connect(disconnect(m, env).m, env)

\* set_default_timeout that refuses negative timeouts only.
set_default_timeout_accepts_zero(m, timeout) ==
    IF timeout < 0
    THEN Raise(m, Exc("ValueError", "Timeout must be greater than zero", None, None, None))
    ELSE Return([m EXCEPT !.default_recv_timeout = timeout], None)

set_default_timeout(m, timeout) ==
    IF timeout <= 0
    THEN Raise(m, Exc("ValueError", "Timeout must be greater than zero", None, None, None))
    ELSE Return([m EXCEPT !.default_recv_timeout = timeout], None)

\* _check_no_premature_recvd_bytes that polls and goes on whatever it finds.
_check_no_premature_recvd_bytes_never_raises(m, env) ==
    LET s == m.socket[1]
    IN Return(Log(m, "select", s, "ok", IF env.ready THEN <<s>> ELSE <<>>), None)

\* select.select([socket], [], [], 0): env.ready tells whether bytes are
\* already waiting on the socket; the logged data is the list rd.
_check_no_premature_recvd_bytes(m, env) ==
    LET s == m.socket[1]
        m1 == Log(m, "select", s, "ok", IF env.ready THEN <<s>> ELSE <<>>)
    IN IF m.socket = None THEN Raise(m, Exc("AssertionError", "", None, None, None))
       ELSE IF env.ready
       THEN Raise(m1, Exc("OcdConnectionError",
                          "Received unexpected bytes from OpenOCD before the command was even sent.",
                          None, None, None))
       ELSE Return(m1, None)

\* A str that str.encode("utf-8") accepts: it holds no surrogate code point.
Encodable(str) == \A i \in 1..Len(str) : str[i] < 55296 \/ str[i] > 57343

\* _do_send_cmd that looks for premature bytes only after it has sent.
_do_send_cmd_checks_after_send(m, cmd, env) ==
    LET s == m.socket[1]
        data == Utf8Encode(cmd) \o <<COMMAND_DELIMITER>>
        m1 == Log(m, "settimeout", s, "ok", <<SEND_TIMEOUT>>)
        m2 == Log(m1, "send", s, env.send, data)
    IN IF ~Encodable(cmd) THEN Raise(m, Exc("UnicodeEncodeError", "", None, None, None))
       ELSE IF env.send \in {"ok", "short"} THEN _check_no_premature_recvd_bytes(m2, env)
       ELSE Raise(m2, Exc(env.send, "", None, None, None))

\* _do_send_cmd that hands the request to send a second time.
_do_send_cmd_sends_twice(m, cmd, env) ==
    LET chk == _check_no_premature_recvd_bytes(m, env)
    IN IF chk.exc.type # "none" THEN chk
       ELSE IF ~Encodable(cmd)
       THEN Raise(chk.m, Exc("UnicodeEncodeError", "", None, None, None))
       ELSE
         LET s == m.socket[1]
             data == Utf8Encode(cmd) \o <<COMMAND_DELIMITER>>
             m1 == Log(chk.m, "settimeout", s, "ok", <<SEND_TIMEOUT>>)
             m2 == Log(m1, "send", s, env.send, data)
             m3 == Log(m2, "send", s, env.send, data)
         IN IF env.send \in {"ok", "short"} THEN Return(m3, None)
            ELSE Raise(m2, Exc(env.send, "", None, None, None))

\* env.send is what socket.send(data) does: "ok", it returns len(data);
\* "short", it returns a smaller number, having taken only the first bytes
\* of data; or the exception it raises.  The returned number is not looked at.
_do_send_cmd(m, cmd, env) ==
    LET chk == _check_no_premature_recvd_bytes(m, env)
    IN IF ~is_connected(m) THEN Raise(m, Exc("AssertionError", "", None, None, None))
       ELSE IF chk.exc.type # "none" THEN chk
       ELSE IF ~Encodable(cmd)
       THEN Raise(chk.m, Exc("UnicodeEncodeError", "", None, None, None))
       ELSE
         LET s == m.socket[1]
             data == Utf8Encode(cmd) \o <<COMMAND_DELIMITER>>
             m1 == Log(chk.m, "settimeout", s, "ok", <<SEND_TIMEOUT>>)
             m2 == Log(m1, "send", s, env.send, data)
         IN IF env.send \in {"ok", "short"} THEN Return(m2, None)
            ELSE Raise(m2, Exc(env.send, "", None, None, None))

\* recv_data.  Its first `pad` bytes are the letter a (0x61) and are counted,
\* not listed; `tail` lists the bytes after them.
Buf(pad, tail) == [pad |-> pad, tail |-> tail]

\* len(recv_data)
BufLen(b) == b.pad + Len(b.tail)

\* recv_data = d: the new chunk replaces the bytes received so far.
BufCat_keeps_last_chunk(b, d) == Buf(0, d)

\* recv_data += d
BufCat(b, d) == [b EXCEPT !.tail = @ \o d]

\* recv_data.rfind(byte) + 1: the last index holding the byte.
BufFind_last(b, byte) ==
    IF \E i \in 1..Len(b.tail) : b.tail[i] = byte
    THEN b.pad + (CHOOSE i \in 1..Len(b.tail) :
                      b.tail[i] = byte /\ \A j \in (i + 1)..Len(b.tail) : b.tail[j] # byte)
    ELSE 0

\* recv_data.find(byte) + 1, for a byte other than the letter a.
BufFind(b, byte) == IF Find(b.tail, byte) = 0 THEN 0 ELSE b.pad + Find(b.tail, byte)

\* A str whose first `pad` characters are the letter a, followed by str.
Text(pad, str) == IF pad = 0 THEN str ELSE [pad |-> pad, str |-> str]

\* recv_data[:-1].decode("utf-8") of a buffer that ends with a listed byte:
\* None on UnicodeDecodeError.
BufDecode(b) ==
    LET text == Utf8Decode(SubSeq(b.tail, 1, Len(b.tail) - 1))
    IN IF text = None THEN None ELSE Some(Text(b.pad, text[1]))

RECURSIVE RecvLoop(_, _, _, _, _, _)

\* The receive loop that takes an empty read for a read that brought nothing.
RecvLoop_ignores_empty_read(m, curr_timeout, script, i, elapsed, recv_data) ==
    IF i > Len(script) THEN Raise(m, Exc("Pending", "", None, None, None))
    ELSE
      LET s == m.socket[1]
          now == elapsed + script[i].dt
          mt == [m EXCEPT !.clock = Append(@, now)]
          ev == script[i].ev
      IN IF ~(now < curr_timeout)
         THEN Raise(mt, Exc("OcdCommandTimeout",
                            "Did not receive the complete command response within {} seconds.",
                            Some(curr_timeout), None, None))
         ELSE
           LET mr == Log(mt, "recv", s, IF ev.kind = "data" THEN "ok" ELSE ev.kind, ev.data)
               buf == BufCat(recv_data, ev.data)
           IN IF ev.kind = "socket.timeout"
              THEN RecvLoop(mr, curr_timeout, script, i + 1, now, recv_data)
              ELSE IF ev.kind # "data"
              THEN Raise(mr, Exc(ev.kind, "", None, None, None))
              ELSE IF BufLen(buf) > MAX_RESPONSE_SIZE
              THEN Raise(mr, Exc("OcdConnectionError", "Received too big response (exceeding {} bytes)",
                                 Some(MAX_RESPONSE_SIZE), None, None))
              ELSE IF BufFind(buf, COMMAND_DELIMITER) # 0
              THEN IF BufFind(buf, COMMAND_DELIMITER) # BufLen(buf)
                   THEN Raise(mr, Exc("OcdConnectionError",
                                      "Received extra unexpected byte(s) after the command response delimiter!",
                                      None, None, None))
                   ELSE LET text == BufDecode(buf)
                        IN IF text = None
                           THEN Raise(mr, Exc("UnicodeDecodeError", "", None, None, None))
                           ELSE Return(mr, text)
              ELSE RecvLoop(mr, curr_timeout, script, i + 1, now, buf)

\* The receive loop that refuses a response as soon as it reaches the cap.
RecvLoop_cap_off_by_one(m, curr_timeout, script, i, elapsed, recv_data) ==
    IF i > Len(script) THEN Raise(m, Exc("Pending", "", None, None, None))
    ELSE
      LET s == m.socket[1]
          now == elapsed + script[i].dt
          mt == [m EXCEPT !.clock = Append(@, now)]
          ev == script[i].ev
      IN IF ~(now < curr_timeout)
         THEN Raise(mt, Exc("OcdCommandTimeout",
                            "Did not receive the complete command response within {} seconds.",
                            Some(curr_timeout), None, None))
         ELSE
           LET mr == Log(mt, "recv", s, IF ev.kind = "data" THEN "ok" ELSE ev.kind, ev.data)
               buf == BufCat(recv_data, ev.data)
           IN IF ev.kind = "socket.timeout"
              THEN RecvLoop(mr, curr_timeout, script, i + 1, now, recv_data)
              ELSE IF ev.kind # "data"
              THEN Raise(mr, Exc(ev.kind, "", None, None, None))
              ELSE IF ev.data = <<>>
              THEN Raise(mr, Exc("OcdConnectionError", "Connection closed by OpenOCD",
                                 None, None, None))
              ELSE IF BufLen(buf) >= MAX_RESPONSE_SIZE
              THEN Raise(mr, Exc("OcdConnectionError", "Received too big response (exceeding {} bytes)",
                                 Some(MAX_RESPONSE_SIZE), None, None))
              ELSE IF BufFind(buf, COMMAND_DELIMITER) # 0
              THEN IF BufFind(buf, COMMAND_DELIMITER) # BufLen(buf)
                   THEN Raise(mr, Exc("OcdConnectionError",
                                      "Received extra unexpected byte(s) after the command response delimiter!",
                                      None, None, None))
                   ELSE LET text == BufDecode(buf)
                        IN IF text = None
                           THEN Raise(mr, Exc("UnicodeDecodeError", "", None, None, None))
                           ELSE Return(mr, text)
              ELSE RecvLoop(mr, curr_timeout, script, i + 1, now, buf)

\* The receive loop that takes every reading of the clock for the first one.
RecvLoop_clock_stands_still(m, curr_timeout, script, i, elapsed, recv_data) ==
    IF i > Len(script) THEN Raise(m, Exc("Pending", "", None, None, None))
    ELSE
      LET s == m.socket[1]
          now == elapsed
          mt == [m EXCEPT !.clock = Append(@, now)]
          ev == script[i].ev
      IN IF ~(now < curr_timeout)
         THEN Raise(mt, Exc("OcdCommandTimeout",
                            "Did not receive the complete command response within {} seconds.",
                            Some(curr_timeout), None, None))
         ELSE
           LET mr == Log(mt, "recv", s, IF ev.kind = "data" THEN "ok" ELSE ev.kind, ev.data)
               buf == BufCat(recv_data, ev.data)
           IN IF ev.kind = "socket.timeout"
              THEN RecvLoop(mr, curr_timeout, script, i + 1, now, recv_data)
              ELSE IF ev.kind # "data"
              THEN Raise(mr, Exc(ev.kind, "", None, None, None))
              ELSE IF ev.data = <<>>
              THEN Raise(mr, Exc("OcdConnectionError", "Connection closed by OpenOCD",
                                 None, None, None))
              ELSE IF BufLen(buf) > MAX_RESPONSE_SIZE
              THEN Raise(mr, Exc("OcdConnectionError", "Received too big response (exceeding {} bytes)",
                                 Some(MAX_RESPONSE_SIZE), None, None))
              ELSE IF BufFind(buf, COMMAND_DELIMITER) # 0
              THEN IF BufFind(buf, COMMAND_DELIMITER) # BufLen(buf)
                   THEN Raise(mr, Exc("OcdConnectionError",
                                      "Received extra unexpected byte(s) after the command response delimiter!",
                                      None, None, None))
                   ELSE LET text == BufDecode(buf)
                        IN IF text = None
                           THEN Raise(mr, Exc("UnicodeDecodeError", "", None, None, None))
                           ELSE Return(mr, text)
              ELSE RecvLoop(mr, curr_timeout, script, i + 1, now, buf)

\* The receive loop from its i-th clock reading on.  script[i].dt is the time
\* passed since the previous reading of time.time(), script[i].ev what the
\* recv that follows it does; every reading is recorded, counted from the
\* reading that gave time_start.  "Pending": the script ends with the loop
\* still running.
RecvLoop(m, curr_timeout, script, i, elapsed, recv_data) ==
    IF i > Len(script) THEN Raise(m, Exc("Pending", "", None, None, None))
    ELSE
      LET s == m.socket[1]
          now == elapsed + script[i].dt
          mt == [m EXCEPT !.clock = Append(@, now)]
          ev == script[i].ev
      IN IF ~(now < curr_timeout)
         THEN Raise(mt, Exc("OcdCommandTimeout",
                            "Did not receive the complete command response within {} seconds.",
                            Some(curr_timeout), None, None))
         ELSE
           LET mr == Log(mt, "recv", s, IF ev.kind = "data" THEN "ok" ELSE ev.kind, ev.data)
               buf == BufCat(recv_data, ev.data)
           IN IF ev.kind = "socket.timeout"
              THEN RecvLoop(mr, curr_timeout, script, i + 1, now, recv_data)
              ELSE IF ev.kind # "data"
              THEN Raise(mr, Exc(ev.kind, "", None, None, None))
              ELSE IF ev.data = <<>>
              THEN Raise(mr, Exc("OcdConnectionError", "Connection closed by OpenOCD",
                                 None, None, None))
              ELSE IF BufLen(buf) > MAX_RESPONSE_SIZE
              THEN Raise(mr, Exc("OcdConnectionError", "Received too big response (exceeding {} bytes)",
                                 Some(MAX_RESPONSE_SIZE), None, None))
              ELSE IF BufFind(buf, COMMAND_DELIMITER) # 0
              THEN IF BufFind(buf, COMMAND_DELIMITER) # BufLen(buf)
                   THEN Raise(mr, Exc("OcdConnectionError",
                                      "Received extra unexpected byte(s) after the command response delimiter!",
                                      None, None, None))
                   ELSE LET text == BufDecode(buf)
                        IN IF text = None
                           THEN Raise(mr, Exc("UnicodeDecodeError", "", None, None, None))
                           ELSE Return(mr, text)
              ELSE RecvLoop(mr, curr_timeout, script, i + 1, now, buf)

\* _do_recv_response that waits for the default timeout whatever it is given.
_do_recv_response_ignores_argument(m, timeout, env) ==
    LET curr_timeout == m.default_recv_timeout
        m1 == Log(m, "settimeout", m.socket[1], "ok", <<RECV_POLL_TIMEOUT>>)
        m2 == [m1 EXCEPT !.clock = Append(@, 0)]
    IN RecvLoop(m2, curr_timeout, env.script, 1, 0, Buf(env.received, <<>>))

\* _do_recv_response that keeps the timeout it is given as the new default.
_do_recv_response_stores_timeout(m, timeout, env) ==
    LET curr_timeout == IF timeout # None THEN timeout[1] ELSE m.default_recv_timeout
        m1 == Log([m EXCEPT !.default_recv_timeout = curr_timeout],
                  "settimeout", m.socket[1], "ok", <<RECV_POLL_TIMEOUT>>)
        m2 == [m1 EXCEPT !.clock = Append(@, 0)]
    IN RecvLoop(m2, curr_timeout, env.script, 1, 0, Buf(env.received, <<>>))

\* env.script tells what the clock and the recvs of this call do.  The call
\* starts with recv_data = b"": env.received is 0, except where the script
\* tells only the end of a long response; it then is the number of bytes (all
\* the letter a) that the recvs before the script's first step have handed
\* over, the clock standing still.
_do_recv_response(m, timeout, env) ==
    LET curr_timeout == IF timeout # None THEN timeout[1] ELSE m.default_recv_timeout
        m1 == Log(m, "settimeout", m.socket[1], "ok", <<RECV_POLL_TIMEOUT>>)
        m2 == [m1 EXCEPT !.clock = Append(@, 0)]
    IN IF ~is_connected(m) THEN Raise(m, Exc("AssertionError", "", None, None, None))
       ELSE RecvLoop(m2, curr_timeout, env.script, 1, 0, Buf(env.received, <<>>))

\* raw_cmd that returns an empty response when there is no connection.
raw_cmd_silent_when_disconnected(m, cmd, timeout, env) ==
    IF timeout # None /\ timeout[1] <= 0
    THEN Raise(m, Exc("ValueError",
                      "Timeout must be positive float number (or None to use the default timeout)",
                      None, None, None))
    ELSE IF ~is_connected(m)
    THEN Return(m, Some(<<>>))
    ELSE
      LET sent == _do_send_cmd(m, cmd, env)
          r == IF sent.exc.type # "none" THEN sent ELSE _do_recv_response(sent.m, timeout, env)
      IN IF r.exc.type \in {"OcdCommandTimeout", "OcdConnectionError"}
         THEN [r EXCEPT !.m = _close_socket(r.m, FALSE, env)]
         ELSE r

\* raw_cmd that sends the command a second time when the exchange timed out.
raw_cmd_retries_on_timeout(m, cmd, timeout, env) ==
    IF timeout # None /\ timeout[1] <= 0
    THEN Raise(m, Exc("ValueError",
                      "Timeout must be positive float number (or None to use the default timeout)",
                      None, None, None))
    ELSE IF ~is_connected(m)
    THEN Raise(m, Exc("OcdConnectionError", "Not connected", None, None, None))
    ELSE
      LET sent == _do_send_cmd(m, cmd, env)
          r == IF sent.exc.type # "none" THEN sent ELSE _do_recv_response(sent.m, timeout, env)
      IN IF r.exc.type = "OcdCommandTimeout"
         THEN [r EXCEPT !.m = _close_socket(_do_send_cmd(r.m, cmd, env).m, FALSE, env)]
         ELSE IF r.exc.type = "OcdConnectionError"
         THEN [r EXCEPT !.m = _close_socket(r.m, FALSE, env)]
         ELSE r

\* raw_cmd that re-connects after a timeout (while a socket object is left).
raw_cmd_reconnects_on_timeout(m, cmd, timeout, env) ==
    IF timeout # None /\ timeout[1] <= 0
    THEN Raise(m, Exc("ValueError",
                      "Timeout must be positive float number (or None to use the default timeout)",
                      None, None, None))
    ELSE IF ~is_connected(m)
    THEN Raise(m, Exc("OcdConnectionError", "Not connected", None, None, None))
    ELSE
      LET sent == _do_send_cmd(m, cmd, env)
          r == IF sent.exc.type # "none" THEN sent ELSE _do_recv_response(sent.m, timeout, env)
          closed == _close_socket(r.m, FALSE, env)
      IN IF r.exc.type = "OcdCommandTimeout" /\ closed.nsock < MaxSockets
         THEN [r EXCEPT !.m = connect(closed, [connOk |-> TRUE, optOk |-> TRUE, closeOk |-> TRUE]).m]
         ELSE IF r.exc.type \in {"OcdCommandTimeout", "OcdConnectionError"}
         THEN [r EXCEPT !.m = closed]
         ELSE r

\* raw_cmd whose except clause names OcdConnectionError alone.
raw_cmd_timeout_not_caught(m, cmd, timeout, env) ==
    IF timeout # None /\ timeout[1] <= 0
    THEN Raise(m, Exc("ValueError",
                      "Timeout must be positive float number (or None to use the default timeout)",
                      None, None, None))
    ELSE IF ~is_connected(m)
    THEN Raise(m, Exc("OcdConnectionError", "Not connected", None, None, None))
    ELSE
      LET sent == _do_send_cmd(m, cmd, env)
          r == IF sent.exc.type # "none" THEN sent ELSE _do_recv_response(sent.m, timeout, env)
      IN IF r.exc.type \in {"OcdConnectionError"}
         THEN [r EXCEPT !.m = _close_socket(r.m, FALSE, env)]
         ELSE r

raw_cmd(m, cmd, timeout, env) ==
    IF timeout # None /\ timeout[1] <= 0
    THEN Raise(m, Exc("ValueError",
                      "Timeout must be positive float number (or None to use the default timeout)",
                      None, None, None))
    ELSE IF ~is_connected(m)
    THEN Raise(m, Exc("OcdConnectionError", "Not connected", None, None, None))
    ELSE
      LET sent == _do_send_cmd(m, cmd, env)
          r == IF sent.exc.type # "none" THEN sent ELSE _do_recv_response(sent.m, timeout, env)
      IN IF r.exc.type \in {"OcdCommandTimeout", "OcdConnectionError"}
         THEN [r EXCEPT !.m = _close_socket(r.m, FALSE, env)]
         ELSE r

\* ----------------------------------------------------------------- actions

\* The outcomes of the operating system's calls during one handler.
OsEnvs ==
    [connOk : BOOLEAN, optOk : BOOLEAN, shutdownOk : BOOLEAN, closeOk : BOOLEAN]

TimeoutArgs == {-1, 0, 1, 2}

NoCmd == <<>>

\* The call returns or raises: self and the socket objects are as the handler
\* left them, and the call is recorded.
Finish(op, cmd, timeout, r) ==
    /\ _socket' = r.m.socket
    /\ _default_recv_timeout' = r.m.default_recv_timeout
    /\ sockets' = r.m.sockets
    /\ nsock' = r.m.nsock
    /\ last' = [op |-> op, cmd |-> cmd, timeout |-> timeout, exc |-> r.exc, ret |-> r.ret,
                trace |-> r.m.trace, was |-> _socket, wasDefault |-> _default_recv_timeout]

Connect ==
    /\ is_connected(Self) \/ nsock < MaxSockets
    /\ \E env \in OsEnvs : Finish("connect", NoCmd, None, connect(Self, env))

Disconnect ==
    \E env \in OsEnvs : Finish("disconnect", NoCmd, None, disconnect(Self, env))

Reconnect ==
    /\ nsock < MaxSockets
    /\ \E env \in OsEnvs : Finish("reconnect", NoCmd, None, reconnect(Self, env))

SetDefaultTimeout ==
    \E t \in TimeoutArgs :
        Finish("set_default_timeout", NoCmd, Some(t), set_default_timeout(Self, t))

\* Command texts (sequences of code points): "a" and "bé".
Cmds == {<<97>>, <<98, 233>>}

\* What one recv can do: hand over up to RECV_BLOCK_SIZE bytes (none: the
\* peer closed the connection), run into the poll timeout, or fail.
Chunks == {<<>>, <<97>>, <<COMMAND_DELIMITER>>, <<97, COMMAND_DELIMITER>>, <<COMMAND_DELIMITER, 97>>}

RecvEvents ==
    {[kind |-> "data", data |-> c] : c \in {c \in Chunks : Len(c) <= RECV_BLOCK_SIZE}}
    \cup {[kind |-> "socket.timeout", data |-> <<>>], [kind |-> "OSError", data |-> <<>>]}

Steps == [dt : {0, 1}, ev : RecvEvents]

PollTimeout == [kind |-> "socket.timeout", data |-> <<>>]

Recvs(trace) == Cardinality({i \in 1..Len(trace) : trace[i].op = "recv"})

\* The scripts of at most max steps that one exchange uses up: the receive
\* loop ends at the script's last clock reading.  When it ends there without
\* a recv, the last step's event is never looked at, and one event stands for
\* them all.
RECURSIVE UsedScripts(_, _, _, _, _, _)
UsedScripts(m, timeout, received, steps, max, prefix) ==
    UNION {LET script == Append(prefix, st)
               r == _do_recv_response(m, timeout, [script |-> script, received |-> received])
           IN IF r.exc.type = "Pending"
              THEN IF Len(script) < max
                   THEN UsedScripts(m, timeout, received, steps, max, script)
                   ELSE {}
              ELSE IF Recvs(r.m.trace) < Len(script) /\ st.ev # PollTimeout THEN {}
              ELSE {script} : st \in steps}

\* What the operating system and the peer do during one raw_cmd: bytes are
\* waiting before the command is sent, or the send fails, or the exchange
\* follows a script, the send having taken all bytes or (before the shortest
\* scripts) only some.  NoEnv: the call touches no socket.
RawEnvs(m, timeout) ==
    LET used == UsedScripts(m, timeout, 0, Steps, MaxScript, <<>>)
    IN [ready : {TRUE}, send : {"ok"}, script : {<<>>}, received : {0}, closeOk : BOOLEAN]
       \cup [ready : {FALSE}, send : {"OSError", "socket.timeout"}, script : {<<>>},
             received : {0}, closeOk : {TRUE}]
       \cup [ready : {FALSE}, send : {"ok"}, script : used, received : {0}, closeOk : BOOLEAN]
       \cup [ready : {FALSE}, send : {"short"}, script : {sc \in used : Len(sc) = 1},
             received : {0}, closeOk : {TRUE}]

NoEnv == [ready |-> FALSE, send |-> "ok", script |-> <<>>, received |-> 0, closeOk |-> TRUE]

RawCmd ==
    \E timeout \in {None} \cup {Some(t) : t \in TimeoutArgs} :
        IF is_connected(Self) /\ (timeout = None \/ timeout[1] > 0)
        THEN \E env \in RawEnvs(Self, timeout), cmd \in Cmds :
                 Finish("raw_cmd", cmd, timeout, raw_cmd(Self, cmd, timeout, env))
        ELSE \E cmd \in Cmds :
                 Finish("raw_cmd", cmd, timeout, raw_cmd(Self, cmd, timeout, NoEnv))

Init ==
    /\ _socket = None
    /\ _default_recv_timeout = DEFAULT_RECV_TIMEOUT
    /\ sockets = [s \in SockIds |-> "unused"]
    /\ nsock = 0
    /\ last = [op |-> "init", cmd |-> NoCmd, timeout |-> None, exc |-> NoExc, ret |-> None,
               trace |-> <<>>, was |-> None, wasDefault |-> DEFAULT_RECV_TIMEOUT]

Next ==
    \/ Connect
    \/ Disconnect
    \/ Reconnect
    \/ SetDefaultTimeout
    \/ RawCmd

Spec == Init /\ [][Next]_vars
\* ------------------------------------------------- one exchange, in detail

\* The longest script of one exchange.
MaxRecv == 3

\* Command texts: "", "a", "bé", the euro sign, U+1F600, a text holding the
\* delimiter character, and a lone surrogate.
CmdsX == {<<>>, <<97>>, <<98, 233>>, <<8364>>, <<128512>>, <<97, COMMAND_DELIMITER, 98>>, <<55357>>}

\* recv results that cut a response anywhere, also inside the two bytes of é.
ChunksX ==
    {<<>>, <<97>>, <<195>>, <<169>>, <<COMMAND_DELIMITER>>, <<169, COMMAND_DELIMITER>>,
     <<97, COMMAND_DELIMITER>>, <<COMMAND_DELIMITER, 97>>, <<COMMAND_DELIMITER, COMMAND_DELIMITER>>}

RecvEventsX ==
    {[kind |-> "data", data |-> c] : c \in {c \in ChunksX : Len(c) <= RECV_BLOCK_SIZE}}
    \cup {[kind |-> "socket.timeout", data |-> <<>>], [kind |-> "OSError", data |-> <<>>]}

\* Seconds between two clock readings.
StepsX == [dt : {0, 2, 3}, ev : RecvEventsX]

\* Timeouts given to set_default_timeout, and to raw_cmd.
DefaultsX == {2, 3}
TimeoutsX == {None, Some(2), Some(3)}

\* Lengths a response of letters a has reached just below and at the cap.
NearCap == {MAX_RESPONSE_SIZE - 2, MAX_RESPONSE_SIZE - 1, MAX_RESPONSE_SIZE}

\* The call returns or raises; besides what Finish records, the clock
\* readings of the call and the bytes received before the script are kept.
FinishX(op, cmd, timeout, received, r) ==
    /\ _socket' = r.m.socket
    /\ _default_recv_timeout' = r.m.default_recv_timeout
    /\ sockets' = r.m.sockets
    /\ nsock' = r.m.nsock
    /\ last' = [op |-> op, cmd |-> cmd, timeout |-> timeout, exc |-> r.exc,
                ret |-> r.ret, trace |-> r.m.trace, was |-> _socket,
                wasDefault |-> _default_recv_timeout,
                clock |-> r.m.clock, received |-> received]

\* set_default_timeout before the exchange.
SetDefaultTimeoutX ==
    /\ last.op # "raw_cmd"
    /\ \E t \in DefaultsX :
          FinishX("set_default_timeout", NoCmd, Some(t), 0, set_default_timeout(Self, t))

\* raw_cmd of every command text, the send taking all bytes, some or failing.
SendX ==
    /\ last.op # "raw_cmd"
    /\ \E cmd \in CmdsX, timeout \in TimeoutsX :
          \E env \in [ready : {FALSE}, send : {"ok", "short", "OSError", "socket.timeout"},
                      script : UsedScripts(Self, timeout, 0, StepsX, 1, <<>>),
                      received : {0}, closeOk : {TRUE}] :
              /\ env.send \in {"OSError", "socket.timeout"} => env.script = <<[dt |-> 0, ev |-> PollTimeout]>>
              /\ FinishX("raw_cmd", cmd, timeout, 0, raw_cmd(Self, cmd, timeout, env))

\* raw_cmd whose response arrives in any chunks at any pace.
RecvX ==
    /\ last.op # "raw_cmd"
    /\ \E timeout \in TimeoutsX :
          \E env \in [ready : {FALSE}, send : {"ok"},
                      script : UsedScripts(Self, timeout, 0, StepsX, MaxRecv, <<>>),
                      received : {0}, closeOk : BOOLEAN] :
              FinishX("raw_cmd", <<97>>, timeout, 0, raw_cmd(Self, <<97>>, timeout, env))

\* raw_cmd whose response has grown to the cap or just below it.
CapX ==
    /\ last.op # "raw_cmd"
    /\ \E received \in NearCap :
          \E env \in [ready : {FALSE}, send : {"ok"},
                      script : UsedScripts(Self, None, received, [dt : {0}, ev : RecvEventsX],
                                           MaxRecv, <<>>),
                      received : {received}, closeOk : BOOLEAN] :
              FinishX("raw_cmd", <<97>>, None, received, raw_cmd(Self, <<97>>, None, env))

\* A session that has connected its first socket.
InitX ==
    /\ _socket = Some(1)
    /\ _default_recv_timeout = DEFAULT_RECV_TIMEOUT
    /\ sockets = [s \in SockIds |-> IF s = 1 THEN "connected" ELSE "unused"]
    /\ nsock = 1
    /\ last = [op |-> "init", cmd |-> NoCmd, timeout |-> None, exc |-> NoExc, ret |-> None,
               trace |-> <<>>, was |-> None, wasDefault |-> DEFAULT_RECV_TIMEOUT,
               clock |-> <<>>, received |-> 0]

NextX ==
    \/ SetDefaultTimeoutX
    \/ SendX
    \/ RecvX
    \/ CapX

SpecX == InitX /\ [][NextX]_vars

\* ------------------------------------------------------------ PyOpenocdClient

\* The pieces of the envelope, as code points:
\* "capture { " and " }",
\* "set CMD_RETCODE [ catch { ", " } CMD_OUTPUT ] ; " and
\* 'return "$CMD_RETCODE $CMD_OUTPUT" ; '.
CAPTURE_OPEN ==
    <<99, 97, 112, 116, 117, 114, 101, 32, 123, 32>>
CAPTURE_CLOSE ==
    <<32, 125>>
ENVELOPE_OPEN ==
    <<115, 101, 116, 32, 67, 77, 68, 95, 82, 69, 84, 67, 79, 68, 69, 32, 91, 32, 99,
      97, 116, 99, 104, 32, 123, 32>>
ENVELOPE_CLOSE ==
    <<32, 125, 32, 67, 77, 68, 95, 79, 85, 84, 80, 85, 84, 32, 93, 32, 59, 32>>
ENVELOPE_RETURN ==
    <<114, 101, 116, 117, 114, 110, 32, 34, 36, 67, 77, 68, 95, 82, 69, 84, 67, 79, 68,
      69, 32, 36, 67, 77, 68, 95, 79, 85, 84, 80, 85, 84, 34, 32, 59, 32>>

\* \d of a str pattern: the ASCII digits and, of the other decimal digits of
\* Unicode, the ARABIC-INDIC ones (U+0660..U+0669); DigitValue is the value
\* int() gives the digit.
IsDigit(c) == (c >= 48 /\ c <= 57) \/ (c >= 1632 /\ c <= 1641)
DigitValue(c) == IF c <= 57 THEN c - 48 ELSE c - 1632

\* The number of digits of str from index i on, up to the first non-digit.
RECURSIVE DigitRun(_, _)
DigitRun(str, i) ==
    IF i <= Len(str) /\ IsDigit(str[i]) THEN 1 + DigitRun(str, i + 1) ELSE 0

\* re.match(r"^-?\d+($| )", str) is not None.  $ matches at the end of str
\* and before a newline that ends str.
MatchesRetcode(str) ==
    LET k == IF Len(str) >= 1 /\ str[1] = 45 THEN 1 ELSE 0
        n == DigitRun(str, k + 1)
        end == k + n
    IN /\ n >= 1
       /\ \/ end = Len(str)
          \/ end = Len(str) - 1 /\ str[Len(str)] = 10
          \/ end < Len(str) /\ str[end + 1] = 32

\* str(n) of an integer, as f"{n}" formats it.
RECURSIVE NatToStr(_)
NatToStr(n) == IF n < 10 THEN <<48 + n>> ELSE NatToStr(n \div 10) \o <<48 + (n % 10)>>
IntToStr(n) == IF n < 0 THEN <<45>> \o NatToStr(0 - n) ELSE NatToStr(n)

\* str.rsplit(" ", maxsplit=1): the split is made at the last space.
SplitAtFirstSpace_last(str) ==
    IF \E i \in 1..Len(str) : str[i] = 32
    THEN LET i == CHOOSE i \in 1..Len(str) : str[i] = 32 /\ \A j \in (i + 1)..Len(str) : str[j] # 32
         IN <<SubSeq(str, 1, i - 1), SubSeq(str, i + 1, Len(str))>>
    ELSE <<str>>

\* str.split(" ", maxsplit=1)
SplitAtFirstSpace(str) ==
    LET i == Find(str, 32)
    IN IF i = 0 THEN <<str>>
       ELSE <<SubSeq(str, 1, i - 1), SubSeq(str, i + 1, Len(str))>>

\* int(str, 10) of a str that is an optional minus sign and digits, with or
\* without a newline after them.
RECURSIVE DigitsValue(_, _, _)
DigitsValue(str, i, acc) ==
    IF i <= Len(str) /\ IsDigit(str[i])
    THEN DigitsValue(str, i + 1, acc * 10 + DigitValue(str[i]))
    ELSE acc
ParseInt(str) ==
    IF Len(str) >= 1 /\ str[1] = 45 THEN 0 - DigitsValue(str, 2, 0) ELSE DigitsValue(str, 1, 0)

OcdCommandResult(c, raw_cmd_text, retcode, out) ==
    [retcode |-> retcode, cmd |-> c, raw_cmd |-> raw_cmd_text, out |-> out]

OcdInvalidResponseError(msg, raw_cmd_text, out) ==
    [type |-> "OcdInvalidResponseError", msg |-> msg, msgArg |-> None,
     raw_cmd |-> Some(raw_cmd_text), timeout |-> None, out |-> out]

\* The constructor asserts result.retcode != 0: of a result with return code
\* 0 it raises AssertionError instead of building the error.
OcdCommandFailedError(result) ==
    [type |-> IF result.retcode = 0 THEN "AssertionError" ELSE "OcdCommandFailedError", msg |-> "OpenOCD command failed: '{}' (error code: {})",
     msgArg |-> Some(<<result.cmd, result.retcode>>), raw_cmd |-> None, timeout |-> None,
     result |-> result]

\* PyOpenocdClient.raw_cmd; the call is recorded, as a mock of the base
\* client records it.
PyOpenocdClient_raw_cmd(m, text, timeout, env) ==
    raw_cmd([m EXCEPT !.calls = Append(@, [cmd |-> text, timeout |-> timeout])],
            text, timeout, env)

\* The wire text of cmd: the command, captured or not, in the envelope.
WrapCmd(c, capture) ==
    ENVELOPE_OPEN \o (IF capture THEN CAPTURE_OPEN \o c \o CAPTURE_CLOSE ELSE c)
                  \o ENVELOPE_CLOSE \o ENVELOPE_RETURN

\* cmd that takes only a positive return code for a failure.
ParseResult_raises_on_positive_only(c, raw_cmd_text, throw, r) ==
    IF r.exc.type # "none" THEN r
    ELSE
      LET raw_result == r.ret[1]
          parts == SplitAtFirstSpace(raw_result)
          result == OcdCommandResult(c, raw_cmd_text, ParseInt(parts[1]),
                                     IF Len(parts) = 2 THEN parts[2] ELSE <<>>)
      IN IF ~MatchesRetcode(raw_result)
         THEN Raise(r.m, OcdInvalidResponseError(
                             "Received unexpected response from OpenOCD. It looks like OpenOCD misbehaves. ",
                             raw_cmd_text, raw_result))
         ELSE IF throw /\ result.retcode > 0
         THEN Raise(r.m, OcdCommandFailedError(result))
         ELSE Return(r.m, Some(result))

\* The parse that gives the connection up when the reply is not understood.
ParseResult_disconnects_on_invalid(c, raw_cmd_text, throw, r) ==
    IF r.exc.type # "none" THEN r
    ELSE
      LET raw_result == r.ret[1]
          parts == SplitAtFirstSpace(raw_result)
          result == OcdCommandResult(c, raw_cmd_text, ParseInt(parts[1]),
                                     IF Len(parts) = 2 THEN parts[2] ELSE <<>>)
      IN IF ~MatchesRetcode(raw_result)
         THEN Raise(_close_socket(r.m, FALSE, NoEnv), OcdInvalidResponseError(
                             "Received unexpected response from OpenOCD. It looks like OpenOCD misbehaves. ",
                             raw_cmd_text, raw_result))
         ELSE IF throw /\ result.retcode # 0
         THEN Raise(r.m, OcdCommandFailedError(result))
         ELSE Return(r.m, Some(result))

\* What cmd does with the outcome r of its raw_cmd call.
ParseResult(c, raw_cmd_text, throw, r) ==
    IF r.exc.type # "none" THEN r
    ELSE
      LET raw_result == r.ret[1]
          parts == SplitAtFirstSpace(raw_result)
          result == OcdCommandResult(c, raw_cmd_text, ParseInt(parts[1]),
                                     IF Len(parts) = 2 THEN parts[2] ELSE <<>>)
      IN IF ~MatchesRetcode(raw_result)
         THEN Raise(r.m, OcdInvalidResponseError(
                             "Received unexpected response from OpenOCD. It looks like OpenOCD misbehaves. ",
                             raw_cmd_text, raw_result))
         ELSE IF throw /\ result.retcode # 0
         THEN Raise(r.m, OcdCommandFailedError(result))
         ELSE Return(r.m, Some(result))

\* cmd that leaves the timeout of the exchange to the default.
cmd_drops_timeout(m, c, capture, throw, timeout, env) ==
    ParseResult(c, WrapCmd(c, capture), throw,
                PyOpenocdClient_raw_cmd(m, WrapCmd(c, capture), None, env))

cmd(m, c, capture, throw, timeout, env) ==
    ParseResult(c, WrapCmd(c, capture), throw,
                PyOpenocdClient_raw_cmd(m, WrapCmd(c, capture), timeout, env))

\* Command texts given to cmd: "a" and "b c".
CmdTexts == {<<97>>, <<98, 32, 99>>}

\* Return codes and output texts of well-formed replies: the texts are "",
\* " ", "a b", " a" and "a", newline, "b".
RetCodes == {-123, -1, 0, 7, 138}
OutTexts == {<<>>, <<32>>, <<97, 32, 98>>, <<32, 97>>, <<97, 10, 98>>}

\* Reply texts of the peer: a return code alone, a return code, a space and
\* an output text, and "", "a", "0 a", "138 x", "0" and a newline, "1a",
\* "-", " 0", "00", "+1", "56a b", ARABIC-INDIC DIGIT THREE and " a".
Replies ==
    {IntToStr(n) : n \in RetCodes}
    \cup {IntToStr(n) \o <<32>> \o t : n \in RetCodes, t \in OutTexts}
    \cup {<<>>,
          <<97>>,
          <<48, 32, 97>>,
          <<49, 51, 56, 32, 120>>,
          <<48, 10>>,
          <<49, 97>>,
          <<45>>,
          <<32, 48>>,
          <<48, 48>>,
          <<43, 49>>,
          <<53, 54, 97, 32, 98>>,
          <<1635, 32, 97>>}

\* What happens during the raw_cmd of a cmd: the peer sends one of the
\* replies in one piece, or closes the connection, or stays silent until
\* the timeout has passed.
CmdEnvs ==
    [ready : {FALSE}, send : {"ok"}, received : {0}, closeOk : {TRUE},
     script : {<<[dt |-> 0, ev |-> [kind |-> "data",
                                     data |-> Utf8Encode(reply) \o <<COMMAND_DELIMITER>>]]>> :
                   reply \in Replies}
              \cup {<<[dt |-> 0, ev |-> [kind |-> "data", data |-> <<>>]]>>,
                    <<[dt |-> DEFAULT_RECV_TIMEOUT, ev |-> PollTimeout]>>}]

\* cmd returns or raises: the object is as it left it, and the call is
\* recorded together with the raw_cmd calls it made and with the kind of
\* error in which the call before it ended.
FinishC(c, capture, throw, timeout, r) ==
    /\ _socket' = r.m.socket
    /\ _default_recv_timeout' = r.m.default_recv_timeout
    /\ sockets' = r.m.sockets
    /\ nsock' = r.m.nsock
    /\ last' = [op |-> "cmd", cmd |-> c, capture |-> capture, throw |-> throw,
                timeout |-> timeout, exc |-> r.exc, ret |-> r.ret,
                trace |-> r.m.trace, calls |-> r.m.calls, was |-> _socket,
                wasDefault |-> _default_recv_timeout, after |-> last.exc.type]

\* cmd as the first command, of every text and with every argument, and
\* cmd("a") as the command that follows a cmd that raised
\* OcdInvalidResponseError or OcdCommandFailedError.
Cmd ==
    \E c \in CmdTexts, capture \in BOOLEAN, throw \in BOOLEAN,
       timeout \in {None, Some(0), Some(2)}, env \in CmdEnvs :
       /\ last.op = "cmd"
          => /\ last.exc.type \in {"OcdInvalidResponseError", "OcdCommandFailedError"}
             /\ c = <<97>>
             /\ ~capture
             /\ timeout = None
       /\ FinishC(c, capture, throw, timeout, cmd(Self, c, capture, throw, timeout, env))

\* disconnect before the command.
DisconnectC ==
    /\ last.op = "init"
    /\ is_connected(Self)
    /\ \E env \in OsEnvs : Finish("disconnect", NoCmd, None, disconnect(Self, env))

NextC ==
    \/ DisconnectC
    \/ Cmd

\* A client whose base client has connected its first socket.
SpecC == InitX /\ [][NextC]_vars

\* ------------------------------------------------- the client in a with

\* The longest body of a with-statement: the number of calls it makes.
MaxBody == 2

\* PyOpenocdClient.connect and disconnect hand over to the base client; the
\* call is recorded as the mocked base client of the unit tests records it.
PyOpenocdClient_connect(m, env) ==
    connect([m EXCEPT !.calls = Append(@, [method |-> "connect"])], env)

PyOpenocdClient_disconnect(m, env) ==
    disconnect([m EXCEPT !.calls = Append(@, [method |-> "disconnect"])], env)

\* __enter__ connects and returns self.
__enter__(m, env) ==
    IF PyOpenocdClient_connect(m, env).exc.type # "none"
    THEN PyOpenocdClient_connect(m, env)
    ELSE Return(PyOpenocdClient_connect(m, env).m, Some("self"))

\* __exit__ that leaves the session alone when the body raised.
__exit___only_without_exception(m, exc, env) ==
    IF exc.type # "none" THEN Return(m, None) ELSE PyOpenocdClient_disconnect(m, env)

\* __exit__ disconnects, whatever exception it is told of, and returns None.
__exit__(m, exc, env) == PyOpenocdClient_disconnect(m, env)

\* A step of `with PyOpenocdClient(...) as ocd: body` has been made: `where`
\* is the place the statement has come to ("before" it, in its "body", the
\* body has "raised", "not entered" because __enter__ raised, "after" it),
\* `steps` counts the calls of the body, `pending` is the exception the body
\* raised.
FinishW(op, where, steps, pending, r) ==
    /\ _socket' = r.m.socket
    /\ _default_recv_timeout' = r.m.default_recv_timeout
    /\ sockets' = r.m.sockets
    /\ nsock' = r.m.nsock
    /\ last' = [op |-> op, where |-> where, steps |-> steps, pending |-> pending,
                exc |-> r.exc, ret |-> r.ret, trace |-> r.m.trace, calls |-> r.m.calls,
                was |-> _socket]

\* A client that its owner connected before the with-statement.
ConnectW ==
    /\ last.op = "init"
    /\ \E env \in OsEnvs : FinishW("connect", "before", 0, NoExc, PyOpenocdClient_connect(Self, env))

\* __enter__ runs: the body follows when it returned, else the exception
\* leaves the statement and __exit__ is not called.
Enter ==
    /\ last.where = "before"
    /\ \E env \in OsEnvs :
          FinishW("__enter__",
                  IF __enter__(Self, env).exc.type = "none" THEN "body" ELSE "not entered",
                  0, NoExc, __enter__(Self, env))

\* A call of the body: an exception it raises leaves the body.
BodyCalled(op, r) ==
    FinishW(op, IF r.exc.type = "none" THEN "body" ELSE "raised", last.steps + 1, r.exc, r)

BodyCmd ==
    /\ last.where = "body"
    /\ last.steps < MaxBody
    /\ \E c \in CmdTexts, throw \in BOOLEAN, env \in CmdEnvs :
          BodyCalled("cmd", cmd(Self, c, FALSE, throw, None, env))

BodyDisconnect ==
    /\ last.where = "body"
    /\ last.steps < MaxBody
    /\ \E env \in OsEnvs : BodyCalled("disconnect", PyOpenocdClient_disconnect(Self, env))

\* The body raises an exception of its own.
BodyRaise ==
    /\ last.where = "body"
    /\ BodyCalled("raise", Raise(Self, Exc("Exception", "", None, None, None)))

\* The body is left, at its end or by the exception it raised: __exit__
\* runs and returns None, so the exception of the body, if any, goes on to
\* the caller.
Exit ==
    /\ last.where \in {"body", "raised"}
    /\ \E env \in OsEnvs :
          FinishW("__exit__", "after", last.steps, last.pending,
                  IF __exit__(Self, last.pending, env).exc.type = "none"
                  THEN [__exit__(Self, last.pending, env) EXCEPT !.exc = last.pending]
                  ELSE __exit__(Self, last.pending, env))

InitW ==
    /\ _socket = None
    /\ _default_recv_timeout = DEFAULT_RECV_TIMEOUT
    /\ sockets = [s \in SockIds |-> "unused"]
    /\ nsock = 0
    /\ last = [op |-> "init", where |-> "before", steps |-> 0, pending |-> NoExc,
               exc |-> NoExc, ret |-> None, trace |-> <<>>, calls |-> <<>>, was |-> None]

NextW ==
    \/ ConnectW
    \/ Enter
    \/ BodyCmd
    \/ BodyDisconnect
    \/ BodyRaise
    \/ Exit

SpecW == InitW /\ [][NextW]_vars

\* ------------------------------------------------ the commands of the client

\* "shutdown"
SHUTDOWN == <<115, 104, 117, 116, 100, 111, 119, 110>>

\* exit() disconnects.
exit(m, os) == PyOpenocdClient_disconnect(m, os)

\* shutdown whose cmd call keeps the default throw=True.
shutdown_throws(m, env, os) ==
    IF cmd(m, SHUTDOWN, FALSE, TRUE, None, env).exc.type # "none"
    THEN cmd(m, SHUTDOWN, FALSE, TRUE, None, env)
    ELSE PyOpenocdClient_disconnect(cmd(m, SHUTDOWN, FALSE, TRUE, None, env).m, os)

\* shutdown() sends "shutdown" with throw=False and, when that call
\* returned, disconnects.
shutdown(m, env, os) ==
    IF cmd(m, SHUTDOWN, FALSE, FALSE, None, env).exc.type # "none"
    THEN cmd(m, SHUTDOWN, FALSE, FALSE, None, env)
    ELSE PyOpenocdClient_disconnect(cmd(m, SHUTDOWN, FALSE, FALSE, None, env).m, os)

\* A Python int of any size: its sign and the hexadecimal digits of its
\* magnitude, the most significant first and not 0; <<>> for zero.
PyInt(neg, mag) == [neg |-> neg, mag |-> mag]
Rep(d, n) == [i \in 1..n |-> d]

\* hex(v): "0x" and the lower-case digits, after "-" for a negative v.
hex(v) ==
    (IF v.neg THEN <<45>> ELSE <<>>) \o <<48, 120>>
    \o (IF v.mag = <<>> THEN <<48>> ELSE [i \in 1..Len(v.mag) |-> IF v.mag[i] < 10 THEN 48 + v.mag[i] ELSE 87 + v.mag[i]])

\* v.bit_length(): the bits of the magnitude.
bit_length(v) ==
    IF v.mag = <<>> THEN 0
    ELSE 4 * (Len(v.mag) - 1)
         + (IF v.mag[1] >= 8 THEN 4 ELSE IF v.mag[1] >= 4 THEN 3 ELSE IF v.mag[1] >= 2 THEN 2 ELSE 1)

\* str.isspace() of a character, which str.strip() and int() go by.
IsSpace(c) ==
    \/ c \in 9..13
    \/ c \in 28..32
    \/ c \in {133, 160, 5760, 8232, 8233, 8239, 8287, 12288}
    \/ c \in 8192..8202

\* str.strip(): the text from its first to its last character that is not
\* white space.
Strip(str) ==
    IF \A i \in 1..Len(str) : IsSpace(str[i]) THEN <<>>
    ELSE SubSeq(str,
                CHOOSE i \in 1..Len(str) : ~IsSpace(str[i]) /\ \A j \in 1..(i - 1) : IsSpace(str[j]),
                CHOOSE i \in 1..Len(str) :
                    ~IsSpace(str[i]) /\ \A j \in (i + 1)..Len(str) : IsSpace(str[j]))

\* str.split(" "): the pieces between the spaces, empty ones too.
RECURSIVE Split(_)
Split(str) ==
    IF Find(str, 32) = 0 THEN <<str>>
    ELSE <<SubSeq(str, 1, Find(str, 32) - 1)>> \o Split(SubSeq(str, Find(str, 32) + 1, Len(str)))

\* " ".join(strs)
RECURSIVE Join(_)
Join(strs) ==
    IF strs = <<>> THEN <<>>
    ELSE IF Len(strs) = 1 THEN strs[1]
    ELSE strs[1] \o <<32>> \o Join(Tail(strs))

\* re.match(r"^0x[0-9a-fA-F]+$", v): "0x", hexadecimal digits, and then the
\* end of the string or the newline that ends the string.
IsHexDigit(c) == c \in 48..57 \/ c \in 65..70 \/ c \in 97..102
RECURSIVE HexRun(_, _)
HexRun(str, i) == IF i <= Len(str) /\ IsHexDigit(str[i]) THEN 1 + HexRun(str, i + 1) ELSE 0
MatchesHex(str) ==
    /\ Len(str) >= 3
    /\ str[1] = 48
    /\ str[2] = 120
    /\ HexRun(str, 3) >= 1
    /\ \/ 2 + HexRun(str, 3) = Len(str)
       \/ 2 + HexRun(str, 3) = Len(str) - 1 /\ str[Len(str)] = 10

\* int(v, 16) of a string that matched: the space around it is dropped, and
\* the digits after "0x" give the value.
HexDigitValue(c) == IF c <= 57 THEN c - 48 ELSE IF c <= 70 THEN c - 55 ELSE c - 87
RECURSIVE DropZeros(_)
DropZeros(mag) == IF mag # <<>> /\ Head(mag) = 0 THEN DropZeros(Tail(mag)) ELSE mag
ParseHex(str) ==
    PyInt(FALSE, DropZeros([i \in 1..(Len(Strip(str)) - 2) |-> HexDigitValue(Strip(str)[i + 2])]))

MEMORY_ACCESS_WIDTHS == {8, 16, 32, 64}

\* The exception _check_memory_access_params raises, NoExc when it returns.
_check_memory_access_params(addr, bit_width) ==
    IF addr.neg
    THEN Exc("ValueError", "Address must be non-negative", None, None, None)
    ELSE IF bit_width \notin MEMORY_ACCESS_WIDTHS
    THEN Exc("ValueError", "Memory access width must be one of: [8, 16, 32, 64]", None, None, None)
    ELSE NoExc

\* What read_memory does with the outcome r of its cmd call.
ReadMemoryResult(count, r) ==
    IF r.exc.type # "none" THEN r
    ELSE
      LET result == r.ret[1]
          values_str == Split(Strip(result.out))
      IN IF Len(values_str) # count
         THEN Raise(r.m, [OcdInvalidResponseError(
                              "OpenOCD's read_memory command provided different number of values than requested (expected {} but obtained {}).",
                              result.raw_cmd, result.out)
                          EXCEPT !.msgArg = Some(<<count, Len(values_str)>>)])
         ELSE IF \E i \in 1..Len(values_str) : ~MatchesHex(values_str[i])
         THEN Raise(r.m, OcdInvalidResponseError(
                             "Found an item that is not a valid hexadecimal number",
                             result.raw_cmd, result.out))
         ELSE Return(r.m, Some([i \in 1..Len(values_str) |-> ParseHex(values_str[i])]))

\* read_memory sends f"read_memory {hex(addr)} {bit_width} {count}", with
\* " phys" after it when asked.
read_memory(m, addr, bit_width, count, phys, timeout, env) ==
    IF _check_memory_access_params(addr, bit_width).type # "none"
    THEN Raise(m, _check_memory_access_params(addr, bit_width))
    ELSE IF count < 1
    THEN Raise(m, Exc("ValueError", "Count must be 1 or higher", None, None, None))
    ELSE ReadMemoryResult(count,
                          cmd(m,
                              <<114, 101, 97, 100, 95, 109, 101, 109, 111, 114, 121, 32>>
                              \o hex(addr) \o <<32>> \o IntToStr(bit_width) \o <<32>>
                              \o IntToStr(count)
                              \o (IF phys THEN <<32, 112, 104, 121, 115>> ELSE <<>>),
                              FALSE, TRUE, timeout, env))

\* _check_memory_write_values that takes a value of bit_width bits for too wide.
_check_memory_write_values_off_by_one(values, bit_width) ==
    IF Len(values) < 1
    THEN Exc("ValueError", "At least one value to write must be provided", None, None, None)
    ELSE IF \E i \in 1..Len(values) : values[i].neg
    THEN Exc("ValueError", "All values to write must be non-negative integers", None, None, None)
    ELSE IF \E i \in 1..Len(values) : bit_length(values[i]) >= bit_width
    THEN Exc("ValueError", "Found a value that exceeds {} bits", Some(bit_width), None, None)
    ELSE NoExc

\* The exception _check_memory_write_values raises, NoExc when it returns.
_check_memory_write_values(values, bit_width) ==
    IF Len(values) < 1
    THEN Exc("ValueError", "At least one value to write must be provided", None, None, None)
    ELSE IF \E i \in 1..Len(values) : values[i].neg
    THEN Exc("ValueError", "All values to write must be non-negative integers", None, None, None)
    ELSE IF \E i \in 1..Len(values) : bit_length(values[i]) > bit_width
    THEN Exc("ValueError", "Found a value that exceeds {} bits", Some(bit_width), None, None)
    ELSE NoExc

\* "{" + " ".join(map(hex, values)) + "}"
_make_tcl_list(values) ==
    <<123>> \o Join([i \in 1..Len(values) |-> hex(values[i])]) \o <<125>>

\* f"write_memory {hex(addr)} {bit_width} {self._make_tcl_list(values)}", and " phys"
WriteMemoryCmd(addr, bit_width, values, phys) ==
    <<119, 114, 105, 116, 101, 95, 109, 101, 109, 111, 114, 121, 32>> \o hex(addr) \o <<32>> \o IntToStr(bit_width) \o <<32>>
    \o _make_tcl_list(values) \o (IF phys THEN <<32, 112, 104, 121, 115>> ELSE <<>>)

\* write_memory returns None when its cmd call returned.
write_memory(m, addr, bit_width, values, phys, timeout, env) ==
    IF _check_memory_access_params(addr, bit_width).type # "none"
    THEN Raise(m, _check_memory_access_params(addr, bit_width))
    ELSE IF _check_memory_write_values(values, bit_width).type # "none"
    THEN Raise(m, _check_memory_write_values(values, bit_width))
    ELSE [cmd(m, WriteMemoryCmd(addr, bit_width, values, phys), FALSE, TRUE, timeout, env)
          EXCEPT !.ret = None]

\* Arguments of the memory commands: the addresses -0x1000, 0 and 0x1000,
\* widths, and lists of values up to 2^64.
Addrs == {PyInt(TRUE, <<1, 0, 0, 0>>), PyInt(FALSE, <<>>), PyInt(FALSE, <<1, 0, 0, 0>>)}
BitWidths == {0, 8, 12, 16, 32, 64}
ValueLists ==
    {<<>>,
     <<PyInt(TRUE, <<10>>)>>,
     <<PyInt(FALSE, <<>>)>>,
     <<PyInt(FALSE, <<1, 2>>), PyInt(FALSE, <<1, 2, 3, 4, 5>>)>>,
     <<PyInt(FALSE, <<1, 2, 3, 4>>), PyInt(FALSE, <<10, 11, 12, 13>>)>>}
    \cup {<<PyInt(FALSE, Rep(15, w \div 4))>> : w \in MEMORY_ACCESS_WIDTHS}
    \cup {<<PyInt(FALSE, <<1>> \o Rep(0, w \div 4))>> : w \in MEMORY_ACCESS_WIDTHS}

\* Outputs of the memory commands: "", "0x1", "0x1 0x2", "0x1 0x2 0x3",
\* "0x1", a newline and " 0x2", "0x1  0x2", " 0x1" and a newline, "0xg",
\* "0x", "0X1", "1", "0x1 2", "0x00Ab 0xffffffffffffffff".
MemOuts ==
    {<<>>,
     <<48, 120, 49>>,
     <<48, 120, 49, 32, 48, 120, 50>>,
     <<48, 120, 49, 32, 48, 120, 50, 32, 48, 120, 51>>,
     <<48, 120, 49, 10, 32, 48, 120, 50>>,
     <<48, 120, 49, 32, 32, 48, 120, 50>>,
     <<32, 48, 120, 49, 10>>,
     <<48, 120, 103>>,
     <<48, 120>>,
     <<48, 88, 49>>,
     <<49>>,
     <<48, 120, 49, 32, 50>>,
     <<48, 120, 48, 48, 65, 98, 32, 48, 120, 102, 102, 102, 102, 102, 102, 102, 102, 102, 102, 102, 102, 102, 102, 102, 102>>}

\* What happens during the raw_cmd of a memory command: the peer sends
\* return code 0 and one of the outputs, or "1 a", or closes the connection,
\* or stays silent.
MemEnvs ==
    [ready : {FALSE}, send : {"ok"}, received : {0}, closeOk : {TRUE},
     script : {<<[dt |-> 0, ev |-> [kind |-> "data",
                                     data |-> Utf8Encode(<<48, 32>> \o out) \o <<COMMAND_DELIMITER>>]]>> :
                   out \in MemOuts}
              \cup {<<[dt |-> 0, ev |-> [kind |-> "data",
                                         data |-> <<49, 32, 97>> \o <<COMMAND_DELIMITER>>]]>>,
                    <<[dt |-> 0, ev |-> [kind |-> "data", data |-> <<>>]]>>,
                    <<[dt |-> DEFAULT_RECV_TIMEOUT, ev |-> PollTimeout]>>}]

\* A command of the client returns or raises: the object is as it left it,
\* and the call is recorded with its arguments and with the calls it made
\* on the base client.
FinishF(op, args, r) ==
    /\ _socket' = r.m.socket
    /\ _default_recv_timeout' = r.m.default_recv_timeout
    /\ sockets' = r.m.sockets
    /\ nsock' = r.m.nsock
    /\ last' = [op |-> op, args |-> args, exc |-> r.exc, ret |-> r.ret,
                trace |-> r.m.trace, calls |-> r.m.calls, was |-> _socket]

Shutdown ==
    /\ last.op \in {"init", "disconnect"}
    /\ \E env \in CmdEnvs, os \in OsEnvs : FinishF("shutdown", <<>>, shutdown(Self, env, os))

ExitCall ==
    /\ last.op \in {"init", "disconnect"}
    /\ \E os \in OsEnvs : FinishF("exit", <<>>, exit(Self, os))

ReadMemory ==
    /\ last.op \in {"init", "disconnect"}
    /\ \E addr \in Addrs, bit_width \in BitWidths, count \in {-4, 0, 1, 2}, phys \in BOOLEAN,
          env \in MemEnvs :
          FinishF("read_memory",
                  [addr |-> addr, bit_width |-> bit_width, count |-> count, phys |-> phys],
                  read_memory(Self, addr, bit_width, count, phys, None, env))

WriteMemory ==
    /\ last.op \in {"init", "disconnect"}
    /\ \E addr \in Addrs, bit_width \in BitWidths, values \in ValueLists, phys \in BOOLEAN,
          env \in MemEnvs :
          FinishF("write_memory",
                  [addr |-> addr, bit_width |-> bit_width, values |-> values, phys |-> phys],
                  write_memory(Self, addr, bit_width, values, phys, None, env))

\* ------------------------------------------------- the breakpoint parser

\* BpInfo(addr, size, bp_type, orig_instr), with the values of BpType.
BpInfo(addr, size, bp_type, orig_instr) ==
    [addr |-> addr, size |-> size, bp_type |-> bp_type, orig_instr |-> orig_instr]

\* The layouts of a line of the breakpoint list: the text a line of a kind
\* begins with and the names its three fields carry, in the current layout
\* and in the legacy one, which has no names.
BpLayouts ==
    {[bp_type |-> "sw", prefix |-> <<83, 111, 102, 116, 119, 97, 114, 101, 32, 98, 114, 101, 97, 107, 112, 111, 105, 110, 116, 40, 73, 86, 65, 41, 58, 32>>,
      names |-> <<<<97, 100, 100, 114, 61>>, <<108, 101, 110, 61>>, <<111, 114, 105, 103, 95, 105, 110, 115, 116, 114, 61>>>>],
     [bp_type |-> "hw", prefix |-> <<72, 97, 114, 100, 119, 97, 114, 101, 32, 98, 114, 101, 97, 107, 112, 111, 105, 110, 116, 40, 73, 86, 65, 41, 58, 32>>,
      names |-> <<<<97, 100, 100, 114, 61>>, <<108, 101, 110, 61>>, <<110, 117, 109, 61>>>>],
     [bp_type |-> "context", prefix |-> <<67, 111, 110, 116, 101, 120, 116, 32, 98, 114, 101, 97, 107, 112, 111, 105, 110, 116, 58, 32>>,
      names |-> <<<<97, 115, 105, 100, 61>>, <<108, 101, 110, 61>>, <<110, 117, 109, 61>>>>],
     [bp_type |-> "hybrid", prefix |-> <<72, 121, 98, 114, 105, 100, 32, 98, 114, 101, 97, 107, 112, 111, 105, 110, 116, 40, 73, 86, 65, 41, 58, 32>>,
      names |-> <<<<97, 100, 100, 114, 61>>, <<108, 101, 110, 61>>, <<110, 117, 109, 61>>>>],
     [bp_type |-> "sw", prefix |-> <<73, 86, 65, 32, 98, 114, 101, 97, 107, 112, 111, 105, 110, 116, 58, 32>>, names |-> <<<<>>, <<>>, <<>>>>],
     [bp_type |-> "hw", prefix |-> <<66, 114, 101, 97, 107, 112, 111, 105, 110, 116, 40, 73, 86, 65, 41, 58, 32>>, names |-> <<<<>>, <<>>, <<>>>>],
     [bp_type |-> "context", prefix |-> <<67, 111, 110, 116, 101, 120, 116, 32, 98, 114, 101, 97, 107, 112, 111, 105, 110, 116, 58, 32>>, names |-> <<<<>>, <<>>, <<>>>>],
     [bp_type |-> "hybrid", prefix |-> <<72, 121, 98, 114, 105, 100, 32, 98, 114, 101, 97, 107, 112, 111, 105, 110, 116, 40, 73, 86, 65, 41, 58, 32>>,
      names |-> <<<<>>, <<>>, <<>>>>]}

StartsWith(str, prefix) ==
    Len(str) >= Len(prefix) /\ SubSeq(str, 1, Len(prefix)) = prefix
After(str, prefix) == SubSeq(str, Len(prefix) + 1, Len(str))

\* The pieces of a text between its ", ".
RECURSIVE SplitFields(_)
SplitFields(str) ==
    IF \E i \in 1..(Len(str) - 1) : str[i] = 44 /\ str[i + 1] = 32
    THEN LET i == CHOOSE i \in 1..(Len(str) - 1) :
                      /\ str[i] = 44 /\ str[i + 1] = 32
                      /\ \A j \in 1..(i - 1) : ~(str[j] = 44 /\ str[j + 1] = 32)
         IN <<SubSeq(str, 1, i - 1)>> \o SplitFields(SubSeq(str, i + 2, Len(str)))
    ELSE <<str>>

\* A numeric field: hexadecimal digits, after "0x" or without it; its value.
HexDigitsOf(str) == IF StartsWith(str, <<48, 120>>) THEN After(str, <<48, 120>>) ELSE str
IsHexNumber(str) ==
    /\ HexDigitsOf(str) # <<>>
    /\ \A i \in 1..Len(HexDigitsOf(str)) : IsHexDigit(HexDigitsOf(str)[i])
HexNumber(str) ==
    PyInt(FALSE, DropZeros([i \in 1..Len(HexDigitsOf(str)) |-> HexDigitValue(HexDigitsOf(str)[i])]))

\* The line has the layout: its beginning, and three fields with their names
\* and a number each. BpFields are the three numbers as written.
MatchesBpLayout(line, layout) ==
    /\ StartsWith(line, layout.prefix)
    /\ Len(SplitFields(After(line, layout.prefix))) = 3
    /\ \A i \in 1..3 :
           /\ StartsWith(SplitFields(After(line, layout.prefix))[i], layout.names[i])
           /\ IsHexNumber(After(SplitFields(After(line, layout.prefix))[i], layout.names[i]))
BpFields(line, layout) ==
    [i \in 1..3 |-> After(SplitFields(After(line, layout.prefix))[i], layout.names[i])]

\* The parsing error; the parser hands back the exception raised ("none"
\* when it returns) and the returned record.
_OcdParsingError(msg, line) == Exc("_OcdParsingError", msg, Some(line), None, None)

\* A parser that keeps the third field of every line as the original
\* instruction.
BpEntryOf_keeps_third_field(line, layout) ==
    IF layout.bp_type \in {"context", "hybrid"}
    THEN [exc |-> Exc("NotImplementedError", "", None, None, None), ret |-> None]
    ELSE [exc |-> NoExc,
          ret |-> Some(BpInfo(HexNumber(BpFields(line, layout)[1]),
                              HexNumber(BpFields(line, layout)[2]),
                              layout.bp_type,
                              Some(HexNumber(BpFields(line, layout)[3]))))]

\* The record of a line that has a layout, or the refusal of its kind.
BpEntryOf(line, layout) ==
    IF layout.bp_type \in {"context", "hybrid"}
    THEN [exc |-> Exc("NotImplementedError", "", None, None, None), ret |-> None]
    ELSE [exc |-> NoExc,
          ret |-> Some(BpInfo(HexNumber(BpFields(line, layout)[1]),
                              HexNumber(BpFields(line, layout)[2]),
                              layout.bp_type,
                              IF layout.bp_type = "sw"
                              THEN Some(HexNumber(BpFields(line, layout)[3]))
                              ELSE None))]

\* A parser that knows the layouts of hardware and software breakpoints only.
parse_bp_entry_two_kinds(line) ==
    IF \E layout \in BpLayouts :
           layout.bp_type \in {"hw", "sw"} /\ MatchesBpLayout(line, layout)
    THEN BpEntryOf(line, CHOOSE layout \in BpLayouts :
                             layout.bp_type \in {"hw", "sw"} /\ MatchesBpLayout(line, layout))
    ELSE [exc |-> _OcdParsingError("Could not parse", line), ret |-> None]

\* _BpParser.parse_bp_entry(line)
parse_bp_entry(line) ==
    IF \E layout \in BpLayouts : MatchesBpLayout(line, layout)
    THEN BpEntryOf(line, CHOOSE layout \in BpLayouts : MatchesBpLayout(line, layout))
    ELSE [exc |-> _OcdParsingError("Could not parse", line), ret |-> None]

\* Breakpoints of the four kinds and their lines in the current and in the
\* legacy layout; the fields are "0x00001000" or "0x1010", "0x8" or "0x4",
\* and "0xabcd1234" or "0".
Breakpoints ==
    [bp_type : {"hw", "sw", "context", "hybrid"},
     addr : {<<48, 120, 48, 48, 48, 48, 49, 48, 48, 48>>, <<48, 120, 49, 48, 49, 48>>},
     len : {<<48, 120, 56>>, <<48, 120, 52>>},
     third : {<<48, 120, 97, 98, 99, 100, 49, 50, 51, 52>>, <<48>>}]

CurrentLine(bp) ==
    (CASE bp.bp_type = "sw" -> <<83, 111, 102, 116, 119, 97, 114, 101, 32, 98, 114, 101, 97, 107, 112, 111, 105, 110, 116, 40, 73, 86, 65, 41, 58, 32, 97, 100, 100, 114, 61>>
       [] bp.bp_type = "hw" -> <<72, 97, 114, 100, 119, 97, 114, 101, 32, 98, 114, 101, 97, 107, 112, 111, 105, 110, 116, 40, 73, 86, 65, 41, 58, 32, 97, 100, 100, 114, 61>>
       [] bp.bp_type = "context" -> <<67, 111, 110, 116, 101, 120, 116, 32, 98, 114, 101, 97, 107, 112, 111, 105, 110, 116, 58, 32, 97, 115, 105, 100, 61>>
       [] bp.bp_type = "hybrid" -> <<72, 121, 98, 114, 105, 100, 32, 98, 114, 101, 97, 107, 112, 111, 105, 110, 116, 40, 73, 86, 65, 41, 58, 32, 97, 100, 100, 114, 61>>)
    \o bp.addr \o <<44, 32, 108, 101, 110, 61>> \o bp.len
    \o (IF bp.bp_type = "sw" THEN <<44, 32, 111, 114, 105, 103, 95, 105, 110, 115, 116, 114, 61>> ELSE <<44, 32, 110, 117, 109, 61>>) \o bp.third

LegacyLine(bp) ==
    (CASE bp.bp_type = "sw" -> <<73, 86, 65, 32, 98, 114, 101, 97, 107, 112, 111, 105, 110, 116, 58, 32>>
       [] bp.bp_type = "hw" -> <<66, 114, 101, 97, 107, 112, 111, 105, 110, 116, 40, 73, 86, 65, 41, 58, 32>>
       [] bp.bp_type = "context" -> <<67, 111, 110, 116, 101, 120, 116, 32, 98, 114, 101, 97, 107, 112, 111, 105, 110, 116, 58, 32>>
       [] bp.bp_type = "hybrid" -> <<72, 121, 98, 114, 105, 100, 32, 98, 114, 101, 97, 107, 112, 111, 105, 110, 116, 40, 73, 86, 65, 41, 58, 32>>)
    \o bp.addr \o <<44, 32>> \o bp.len \o <<44, 32>> \o bp.third

\* Lines of no layout: "", "Software bre__XYZ__k(IVA): addr=0x0, len=0x8,
\* orig_instr=0x1", a software line without its third field, a hardware line
\* with a fourth field, one whose address is not a number, one with a
\* watchpoint's text, and a legacy line after a space.
MalformedLines ==
    {<<>>,
     <<83, 111, 102, 116, 119, 97, 114, 101, 32, 98, 114, 101, 95, 95, 88, 89, 90, 95, 95, 107, 40, 73, 86, 65, 41, 58, 32, 97, 100, 100, 114, 61, 48, 120, 48, 44, 32, 108, 101, 110, 61, 48, 120, 56, 44, 32, 111, 114, 105, 103, 95, 105, 110, 115, 116, 114, 61, 48, 120, 49>>,
     <<83, 111, 102, 116, 119, 97, 114, 101, 32, 98, 114, 101, 97, 107, 112, 111, 105, 110, 116, 40, 73, 86, 65, 41, 58, 32, 97, 100, 100, 114, 61, 48, 120, 48, 44, 32, 108, 101, 110, 61, 48, 120, 56>>,
     <<72, 97, 114, 100, 119, 97, 114, 101, 32, 98, 114, 101, 97, 107, 112, 111, 105, 110, 116, 40, 73, 86, 65, 41, 58, 32, 97, 100, 100, 114, 61, 48, 120, 48, 44, 32, 108, 101, 110, 61, 48, 120, 52, 44, 32, 110, 117, 109, 61, 48, 44, 32, 120, 61, 49>>,
     <<66, 114, 101, 97, 107, 112, 111, 105, 110, 116, 40, 73, 86, 65, 41, 58, 32, 48, 120, 122, 122, 44, 32, 48, 120, 52, 44, 32, 48>>,
     <<97, 100, 100, 114, 101, 115, 115, 58, 32, 48, 120, 49, 48, 44, 32, 108, 101, 110, 58, 32, 48, 120, 52, 44, 32, 114, 47, 119, 47, 97, 58, 32, 114, 44, 32, 118, 97, 108, 117, 101, 58, 32, 48, 120, 48, 44, 32, 109, 97, 115, 107, 58, 32, 48, 120, 48>>,
     <<32, 67, 111, 110, 116, 101, 120, 116, 32, 98, 114, 101, 97, 107, 112, 111, 105, 110, 116, 58, 32, 48, 120, 48, 48, 48, 48, 48, 48, 49, 48, 44, 32, 48, 120, 52, 44, 32, 48>>}

\* parse_bp_entry returns or raises: the call is recorded after the call
\* before it.
FinishP(line, r) ==
    /\ last' = [op |-> "parse_bp_entry", line |-> line, exc |-> r.exc, ret |-> r.ret,
                prev |-> [op |-> last.op, line |-> last.line, exc |-> last.exc,
                          ret |-> last.ret]]
    /\ UNCHANGED <<_socket, _default_recv_timeout, sockets, nsock>>

\* Two lines are parsed, one after the other.
ParseBpEntry ==
    /\ last.op = "init" \/ last.prev.op = "init"
    /\ \E line \in {CurrentLine(bp) : bp \in Breakpoints}
                    \cup {LegacyLine(bp) : bp \in Breakpoints} \cup MalformedLines :
          FinishP(line, parse_bp_entry(line))

InitP ==
    /\ _socket = None
    /\ _default_recv_timeout = DEFAULT_RECV_TIMEOUT
    /\ sockets = [s \in SockIds |-> "unused"]
    /\ nsock = 0
    /\ last = [op |-> "init", line |-> <<>>, exc |-> NoExc, ret |-> None,
               prev |-> [op |-> "none", line |-> <<>>, exc |-> NoExc, ret |-> None]]

SpecP == InitP /\ [][ParseBpEntry]_vars

\* ------------------------------------- the breakpoint and watchpoint lists

\* The most lines in the output of a list command.
MaxLines == 2

\* str.splitlines(): the pieces between line boundaries (\n, \r, \r\n, \v,
\* \f, \x1c, \x1d, \x1e, \x85, U+2028, U+2029); a boundary at the end of the
\* text opens no further piece.
RECURSIVE SplitLines(_)
SplitLines(str) ==
    IF str = <<>> THEN <<>>
    ELSE IF \A i \in 1..Len(str) : str[i] \notin {10, 11, 12, 13, 28, 29, 30, 133, 8232, 8233}
    THEN <<str>>
    ELSE LET i == CHOOSE i \in 1..Len(str) :
                      /\ str[i] \in {10, 11, 12, 13, 28, 29, 30, 133, 8232, 8233}
                      /\ \A j \in 1..(i - 1) :
                             str[j] \notin {10, 11, 12, 13, 28, 29, 30, 133, 8232, 8233}
             n == IF str[i] = 13 /\ i < Len(str) /\ str[i + 1] = 10 THEN 2 ELSE 1
         IN <<SubSeq(str, 1, i - 1)>> \o SplitLines(SubSeq(str, i + n, Len(str)))

\* _WpParser.parse_wp_entry(line): a line of the watchpoint list is
\* "address: 0xHEX, len: 0xHEX, r/w/a: K, value: 0xHEX, mask: 0xHEX" with K
\* one of r, w, a and 0; r is a read, w a write, a and the legacy 0 an access
\* watchpoint.  Any other line is a parsing error.
parse_wp_entry(line) ==
    LET names == <<<<97, 100, 100, 114, 101, 115, 115, 58, 32>>, <<108, 101, 110, 58, 32>>, <<114, 47, 119, 47, 97, 58, 32>>, <<118, 97, 108, 117, 101, 58, 32>>, <<109, 97, 115, 107, 58, 32>>>>
        fields == SplitFields(line)
        text(i) == After(fields[i], names[i])
    IN IF /\ Len(fields) = 5
          /\ \A i \in 1..5 : StartsWith(fields[i], names[i])
          /\ \A i \in {1, 2, 4, 5} : StartsWith(text(i), <<48, 120>>) /\ IsHexNumber(text(i))
          /\ text(3) \in {<<114>>, <<119>>, <<97>>, <<48>>}
       THEN [exc |-> NoExc,
             ret |-> Some([addr |-> HexNumber(text(1)), size |-> HexNumber(text(2)),
                           wp_type |-> IF text(3) = <<114>> THEN "r"
                                       ELSE IF text(3) = <<119>> THEN "w" ELSE "a",
                           value |-> HexNumber(text(4)), mask |-> HexNumber(text(5))])]
       ELSE [exc |-> _OcdParsingError("Could not parse", line), ret |-> None]

\* The list comprehension that hands back what it has parsed when a line
\* cannot be parsed.
ParseLines_returns_parsed_part(r, parsed, msg) ==
    IF \A i \in 1..Len(parsed) : parsed[i].exc.type = "none"
    THEN Return(r.m, Some([i \in 1..Len(parsed) |-> parsed[i].ret[1]]))
    ELSE LET i == CHOOSE i \in 1..Len(parsed) :
                      /\ parsed[i].exc.type # "none"
                      /\ \A j \in 1..(i - 1) : parsed[j].exc.type = "none"
         IN IF parsed[i].exc.type = "_OcdParsingError"
            THEN Return(r.m, Some([j \in 1..(i - 1) |-> parsed[j].ret[1]]))
            ELSE Raise(r.m, parsed[i].exc)

\* try: return [parse(line) for line in lines], except _OcdParsingError:
\* raise OcdInvalidResponseError(msg, result.raw_cmd, result.out).  r is what
\* cmd returned, parsed[i] what the parser does with the i-th line; the lines
\* are parsed in order and the first one that raises ends the comprehension.
ParseLines(r, parsed, msg) ==
    IF \A i \in 1..Len(parsed) : parsed[i].exc.type = "none"
    THEN Return(r.m, Some([i \in 1..Len(parsed) |-> parsed[i].ret[1]]))
    ELSE LET i == CHOOSE i \in 1..Len(parsed) :
                      /\ parsed[i].exc.type # "none"
                      /\ \A j \in 1..(i - 1) : parsed[j].exc.type = "none"
         IN IF parsed[i].exc.type = "_OcdParsingError"
            THEN Raise(r.m, OcdInvalidResponseError(msg, r.ret[1].raw_cmd, r.ret[1].out))
            ELSE Raise(r.m, parsed[i].exc)

\* list_bp parses the lines of the stripped output of cmd("bp").
list_bp(m, env) ==
    LET r == cmd(m, <<98, 112>>, FALSE, TRUE, None, env)
    IN IF r.exc.type # "none" THEN r
       ELSE ParseLines(r, [i \in 1..Len(SplitLines(Strip(r.ret[1].out))) |->
                               parse_bp_entry(SplitLines(Strip(r.ret[1].out))[i])],
                       "Could not parse the output of 'bp' command")

\* list_wp parses the lines of the output of cmd("wp").
list_wp(m, env) ==
    LET r == cmd(m, <<119, 112>>, FALSE, TRUE, None, env)
    IN IF r.exc.type # "none" THEN r
       ELSE ParseLines(r, [i \in 1..Len(SplitLines(r.ret[1].out)) |->
                               parse_wp_entry(SplitLines(r.ret[1].out)[i])],
                       "Could not parse the output of 'wp' command")

\* What the peer does during a list command.  The output of the command is
\* made of at most MaxLines of the given lines, each line ended by \n; the
\* reply is the return code 0 or 1, a space and the output as it is, without
\* its last character, or after a blank line.
ListEnvs(lines) ==
    LET RECURSIVE Outs(_)
        Outs(n) == IF n = 0 THEN {<<>>}
                   ELSE Outs(n - 1) \cup {out \o line \o <<10>> : out \in Outs(n - 1), line \in lines}
    IN {[retcode |-> retcode, out |-> out, form |-> form,
         env |-> [NoEnv EXCEPT !.script =
                     <<[dt |-> 0,
                        ev |-> [kind |-> "data",
                                data |-> Utf8Encode(IntToStr(retcode) \o <<32>>
                                                    \o (CASE form = "whole" -> out
                                                          [] form = "open" -> SubSeq(out, 1, Len(out) - 1)
                                                          [] form = "late" -> <<10>> \o out))
                                         \o <<COMMAND_DELIMITER>>]]>>]] :
           retcode \in {0, 1}, form \in {"whole", "open", "late"}, out \in Outs(MaxLines)}

\* list_bp: the lines are a hardware line "Breakpoint(IVA): 0x1010, 0x4, 0",
\* a software line "IVA breakpoint: 0x1010, 0x4, 0xabcd1234", a context line
\* "Context breakpoint: 0x1010, 0x4, 0", "x" and the hardware line after a
\* space.
ListBp ==
    /\ last.op \in {"init", "disconnect"}
    /\ \E e \in ListEnvs({<<66, 114, 101, 97, 107, 112, 111, 105, 110, 116, 40, 73, 86, 65, 41, 58, 32, 48, 120, 49, 48, 49, 48, 44, 32, 48, 120, 52, 44, 32, 48>>,
                        <<73, 86, 65, 32, 98, 114, 101, 97, 107, 112, 111, 105, 110, 116, 58, 32, 48, 120, 49, 48, 49, 48, 44, 32, 48, 120, 52, 44, 32, 48, 120, 97, 98, 99, 100, 49, 50, 51, 52>>,
                        <<67, 111, 110, 116, 101, 120, 116, 32, 98, 114, 101, 97, 107, 112, 111, 105, 110, 116, 58, 32, 48, 120, 49, 48, 49, 48, 44, 32, 48, 120, 52, 44, 32, 48>>,
                        <<120>>,
                        <<32, 66, 114, 101, 97, 107, 112, 111, 105, 110, 116, 40, 73, 86, 65, 41, 58, 32, 48, 120, 49, 48, 49, 48, 44, 32, 48, 120, 52, 44, 32, 48>>}) :
          FinishF("list_bp", [retcode |-> e.retcode, out |-> e.out, form |-> e.form],
                  list_bp(Self, e.env))

\* list_wp: the lines are a read watchpoint, a legacy access watchpoint, a
\* line without its mask and "x".
ListWp ==
    /\ last.op \in {"init", "disconnect"}
    /\ \E e \in ListEnvs({<<97, 100, 100, 114, 101, 115, 115, 58, 32, 48, 120, 49, 48, 44, 32, 108, 101, 110, 58, 32, 48, 120, 52, 44, 32, 114, 47, 119, 47, 97, 58, 32, 114, 44, 32, 118, 97, 108, 117, 101, 58, 32, 48, 120, 48, 44, 32, 109, 97, 115, 107, 58, 32, 48, 120, 102, 102>>,
                        <<97, 100, 100, 114, 101, 115, 115, 58, 32, 48, 120, 50, 48, 44, 32, 108, 101, 110, 58, 32, 48, 120, 56, 44, 32, 114, 47, 119, 47, 97, 58, 32, 48, 44, 32, 118, 97, 108, 117, 101, 58, 32, 48, 120, 97, 98, 44, 32, 109, 97, 115, 107, 58, 32, 48, 120, 102, 102, 102, 102, 102, 102, 102, 102, 102, 102, 102, 102, 102, 102, 102, 102>>,
                        <<97, 100, 100, 114, 101, 115, 115, 58, 32, 48, 120, 49, 48, 44, 32, 108, 101, 110, 58, 32, 48, 120, 52, 44, 32, 114, 47, 119, 47, 97, 58, 32, 114, 44, 32, 118, 97, 108, 117, 101, 58, 32, 48, 120, 48>>,
                        <<120>>}) :
          FinishF("list_wp", [retcode |-> e.retcode, out |-> e.out, form |-> e.form],
                  list_wp(Self, e.env))


\* ------------------------------------------- exchanges after a failed one

\* What happens during a raw_cmd: bytes may be waiting before the send, the
\* send may fail, and the peer answers "a" at once or after a poll timeout,
\* sends "a" without the delimiter and stays silent, closes the connection,
\* or stays silent.
StaleEnvs ==
    [ready : BOOLEAN, send : {"ok", "OSError"}, received : {0}, closeOk : BOOLEAN,
     script : {<<[dt |-> 0, ev |-> [kind |-> "data", data |-> <<97, COMMAND_DELIMITER>>]]>>,
               <<[dt |-> 1, ev |-> PollTimeout],
                 [dt |-> 0, ev |-> [kind |-> "data", data |-> <<97, COMMAND_DELIMITER>>]]>>,
               <<[dt |-> 0, ev |-> [kind |-> "data", data |-> <<97>>]],
                 [dt |-> DEFAULT_RECV_TIMEOUT, ev |-> PollTimeout]>>,
               <<[dt |-> 0, ev |-> [kind |-> "data", data |-> <<>>]]>>,
               <<[dt |-> DEFAULT_RECV_TIMEOUT, ev |-> PollTimeout]>>}]

\* The call returns or raises: it is recorded together with the sockets that
\* were stale before it and those that are stale after it. A socket is
\* stale, its connection may still carry the answer to a command, when a
\* raw_cmd has ended in the timeout error or in OcdConnectionError after it
\* had begun an exchange on it.
FinishS(op, c, timeout, r) ==
    /\ _socket' = r.m.socket
    /\ _default_recv_timeout' = r.m.default_recv_timeout
    /\ sockets' = r.m.sockets
    /\ nsock' = r.m.nsock
    /\ last' = [op |-> op, cmd |-> c, timeout |-> timeout, exc |-> r.exc, ret |-> r.ret,
                trace |-> r.m.trace, was |-> _socket, staleBefore |-> last.stale,
                stale |-> last.stale
                          \cup (IF /\ op = "raw_cmd"
                                   /\ r.exc.type \in {"OcdCommandTimeout", "OcdConnectionError"}
                                   /\ _socket # None
                                   /\ r.m.trace # <<>>
                                THEN {_socket[1]}
                                ELSE {})]

ConnectS ==
    /\ is_connected(Self) \/ nsock < MaxSockets
    /\ \E env \in OsEnvs : FinishS("connect", NoCmd, None, connect(Self, env))

DisconnectS ==
    /\ is_connected(Self)
    /\ \E env \in OsEnvs : FinishS("disconnect", NoCmd, None, disconnect(Self, env))

RawCmdS ==
    \E c \in Cmds, timeout \in {None, Some(1)}, env \in StaleEnvs :
        FinishS("raw_cmd", c, timeout, raw_cmd(Self, c, timeout, env))

InitS ==
    /\ _socket = None
    /\ _default_recv_timeout = DEFAULT_RECV_TIMEOUT
    /\ sockets = [s \in SockIds |-> "unused"]
    /\ nsock = 0
    /\ last = [op |-> "init", cmd |-> NoCmd, timeout |-> None, exc |-> NoExc, ret |-> None,
               trace |-> <<>>, was |-> None, staleBefore |-> {}, stale |-> {}]

NextS ==
    \/ ConnectS
    \/ DisconnectS
    \/ RawCmdS

SpecS == InitS /\ [][NextS]_vars

\* ---------------------------------------- unsolicited bytes on the connection

\* raw_cmd on a connection that carries bytes the client did not ask for.
\* The bytes left unread by the previous call, and an x that may have arrived
\* since, wait on the socket at the poll and are what a recv would read.
\* Otherwise the recvs read what arrived after the poll, stray bytes first
\* and then the answer, the first recv taking k bytes and a second one the
\* remainder.  Recorded with the call: the bytes that were waiting on the
\* socket when the call polled it, the bytes that arrived unasked for between
\* that poll and the first recv, the bytes the peer sent in answer to the
\* request, and the bytes that lie unread on the socket after the call (none
\* once the socket is closed).
RawCmdU ==
    /\ last.op \in {"init", "raw_cmd"}
    /\ is_connected(Self)
    /\ \E c \in Cmds, idle \in {<<>>, <<120>>} :
          LET waiting == (IF last.op = "init" THEN <<>> ELSE last.args.unread) \o idle
          IN IF waiting # <<>>
             THEN FinishF("raw_cmd",
                          [cmd |-> c, waiting |-> waiting, stray |-> <<>>, answer |-> <<>>,
                           unread |-> <<>>],
                          raw_cmd(Self, c, None,
                                  [NoEnv EXCEPT !.ready = TRUE,
                                                !.script = <<[dt |-> 0, ev |-> [kind |-> "data", data |-> waiting]]>>]))
             ELSE \E stray \in {<<>>, <<120>>, <<COMMAND_DELIMITER>>, <<120, COMMAND_DELIMITER>>,
                                    <<120, COMMAND_DELIMITER, 121>>},
                     answer \in {<<COMMAND_DELIMITER>>, <<97, COMMAND_DELIMITER>>,
                                 <<195, 169, COMMAND_DELIMITER>>} :
                      \E k \in 1..Len(stray \o answer) :
                          LET first == SubSeq(stray \o answer, 1, k)
                              second == SubSeq(stray \o answer, k + 1, Len(stray \o answer))
                              once == Find(first, COMMAND_DELIMITER) # 0 \/ second = <<>>
                              r == raw_cmd(Self, c, None,
                                           [NoEnv EXCEPT !.script =
                                               IF once
                                               THEN <<[dt |-> 0, ev |-> [kind |-> "data", data |-> first]]>>
                                               ELSE <<[dt |-> 0, ev |-> [kind |-> "data", data |-> first]],
                                                      [dt |-> 0, ev |-> [kind |-> "data", data |-> second]]>>])
                          IN FinishF("raw_cmd",
                                     [cmd |-> c, waiting |-> waiting, stray |-> stray,
                                      answer |-> answer,
                                      unread |-> IF once /\ r.m.socket # None THEN second ELSE <<>>],
                                     r)

\* The commands of the client.
NextF ==
    \/ DisconnectC
    \/ Shutdown
    \/ ExitCall
    \/ ReadMemory
    \/ WriteMemory
    \/ ListBp
    \/ ListWp
    \/ RawCmdU

\* A client whose base client has connected its first socket.
SpecF == InitX /\ [][NextF]_vars

\* ------------------------------------------- the receive loop, step by step

\* The most bytes of an unfinished response the peer sends one by one.
MaxData == 2

\* raw_cmd is called and runs up to the head of its receive loop: the
\* checks of its arguments and of the connection, the poll, the send, which
\* returns or raises within SEND_TIMEOUT, and the reading of time_start.
\* The call is in its receive loop ("Pending") while the loop has neither
\* returned nor raised.  Kept with it: curr_timeout, `elapsed`, the last
\* reading of the clock counted from time_start, `recv_data`, the bytes
\* received so far, and `turn`, which changes with every turn of the loop;
\* `trace` holds the socket operations of the step.
CallT ==
    /\ last.op = "raw_cmd" => last.exc.type # "Pending"
    /\ \E c \in Cmds, timeout \in {None, Some(0), Some(1), Some(2)}, ready \in BOOLEAN,
          send \in {"ok", "OSError", "socket.timeout"} :
          FinishF("raw_cmd",
                  [cmd |-> c, timeout |-> timeout,
                   curr_timeout |-> IF timeout # None THEN timeout[1] ELSE _default_recv_timeout,
                   elapsed |-> 0, recv_data |-> Buf(0, <<>>), turn |-> 0],
                  raw_cmd(Self, c, timeout, [NoEnv EXCEPT !.ready = ready, !.send = send]))

\* One turn of the receive loop: the clock is read, dt after its last
\* reading, and unless the deadline has come one recv is made, which within
\* RECV_POLL_TIMEOUT hands over bytes, finds the connection closed, runs into
\* the poll timeout or raises OSError.  The peer sends a byte of an unfinished
\* response, the end of the response, bytes behind a delimiter, or, in a
\* flood, the byte that takes the response beyond MAX_RESPONSE_SIZE.  What
\* the loop raises passes the except clause of raw_cmd.
LoopT ==
    /\ last.op = "raw_cmd"
    /\ last.exc.type = "Pending"
    /\ \E dt \in {0, 1}, flood \in BOOLEAN,
          ev \in {[kind |-> "data", data |-> d] :
                      d \in {<<>>, <<97>>, <<97, COMMAND_DELIMITER>>, <<COMMAND_DELIMITER, 97>>}}
                 \cup {PollTimeout, [kind |-> "OSError", data |-> <<>>]} :
          LET r == RecvLoop(Self, last.args.curr_timeout, <<[dt |-> dt, ev |-> ev]>>, 1,
                            last.args.elapsed,
                            IF flood THEN Buf(MAX_RESPONSE_SIZE, <<>>) ELSE last.args.recv_data)
          IN /\ flood => ev.data = <<97>>
             /\ (~flood /\ ev.data = <<97>>) => BufLen(last.args.recv_data) < MaxData
             /\ FinishF("raw_cmd",
                        [last.args EXCEPT !.elapsed = r.m.clock[1],
                                          !.recv_data = IF ev.kind = "data" /\ r.exc.type = "Pending"
                                                        THEN BufCat(@, ev.data)
                                                        ELSE @,
                                          !.turn = 1 - @],
                        IF r.exc.type \in {"OcdCommandTimeout", "OcdConnectionError"}
                        THEN [r EXCEPT !.m = _close_socket(r.m, FALSE, NoEnv)]
                        ELSE r)

\* The loop runs while it can and the clock advances: in the end a turn of
\* the loop finds the clock advanced.  Nothing is asked of the peer.
SpecT ==
    /\ InitX
    /\ [][CallT \/ LoopT]_vars
    /\ WF_vars(LoopT /\ last'.args.elapsed > last.args.elapsed)

\* ------------------------------------------------------------------ claims

\* The names of the socket operations of a call, in order, and how many of
\* them are `op`.
OpsOf(trace) == [i \in 1..Len(trace) |-> trace[i].op]
Count(trace, op) == Cardinality({i \in 1..Len(trace) : trace[i].op = op})

\* The handle names a socket object that was connected and has not been closed.
HoldsOpenSocket ==
    /\ _socket # None
    /\ _socket[1] \in 1..nsock
    /\ sockets[_socket[1]] = "connected"

\* raw_cmd started an exchange on a connected session.
Exchanged == last.op = "raw_cmd" /\ last.was # None /\ last.trace # <<>>

\* C1: whenever a call has returned or raised, the session either holds a
\* handle to a connected, unclosed socket or holds no handle; is_connected()
\* is true exactly in the first case.
SessionConnectedOrDisconnected ==
    /\ HoldsOpenSocket \/ _socket = None
    /\ is_connected(Self) <=> HoldsOpenSocket

\* C1 witness: a raw_cmd on a connected session has ended in a timeout and
\* the socket it used is closed and no longer held.
TimedOutSocketDropped ==
    /\ Exchanged
    /\ last.exc.type = "OcdCommandTimeout"
    /\ _socket = None
    /\ sockets[last.was[1]] = "closed"

AnyTransportFailureDisconnects ==
    (Exchanged /\ last.exc.type \in {"OcdConnectionError", "OcdCommandTimeout", "OSError", "socket.timeout"})
    => ~is_connected(Self)

\* The bytes the recvs of a call handed over, in order.
RECURSIVE RecvData(_)
RecvData(trace) ==
    IF trace = <<>> THEN <<>>
    ELSE (IF Head(trace).op = "recv" /\ Head(trace).res = "ok" THEN Head(trace).data ELSE <<>>)
         \o RecvData(Tail(trace))

\* The peer accepted the connection of call c and TCP_NODELAY could be set.
Accepted(c) ==
    /\ \E i \in 1..Len(c.trace) : c.trace[i].op = "connect" /\ c.trace[i].res = "ok"
    /\ \E i \in 1..Len(c.trace) : c.trace[i].op = "setsockopt" /\ c.trace[i].res = "ok"

\* The peer answered the raw_cmd c: every recv handed over bytes or ran into
\* the poll timeout, and the bytes are valid UTF-8 text followed by the
\* delimiter, which occurs nowhere else.
Answered(c) ==
    /\ c.op = "raw_cmd"
    /\ Count(c.trace, "recv") >= 1
    /\ \A i \in 1..Len(c.trace) :
           c.trace[i].op = "recv" =>
               /\ c.trace[i].res \in {"ok", "socket.timeout"}
               /\ c.trace[i].res = "ok" => c.trace[i].data # <<>>
    /\ LET d == RecvData(c.trace)
       IN /\ Len(d) >= 1
          /\ Find(d, COMMAND_DELIMITER) = Len(d)
          /\ Utf8Decode(SubSeq(d, 1, Len(d) - 1)) # None

TimedOut == last.op = "raw_cmd" /\ last.exc.type = "OcdCommandTimeout"

EffectiveTimeout == IF last.timeout # None THEN last.timeout[1] ELSE last.wasDefault

\* C6 (as claimed): the timeout error carries the command text and the
\* effective timeout as attributes.
TimeoutErrorCarriesCommandAndTimeout ==
    TimedOut =>
        /\ last.exc.raw_cmd = Some(last.cmd)
        /\ last.exc.timeout = Some(EffectiveTimeout)

FailedConnectLeavesDisconnected ==
    (last.op = "connect" /\ last.was = None /\ last.exc.type # "none")
    => /\ last.exc.type = "OcdConnectionError"
       /\ ~is_connected(Self)
       /\ \/ /\ last.trace[2].res # "ok"
             /\ OpsOf(last.trace) = <<"socket", "connect">>
             /\ sockets[nsock] = "created"
          \/ /\ last.trace[2].res = "ok"
             /\ OpsOf(last.trace) = <<"socket", "connect", "setsockopt", "close">>
             /\ last.trace[3].res # "ok"
             /\ last.exc.msg = "Could not set TCP_NODELAY for the socket"
             /\ sockets[nsock] = "closed"

\* C8 witness: setting TCP_NODELAY failed on a freshly connected socket.
NodelayFailed ==
    /\ last.op = "connect"
    /\ last.exc.msg = "Could not set TCP_NODELAY for the socket"
    /\ Count(last.trace, "close") = 1
    /\ ~is_connected(Self)

\* C9: disconnect() never raises and ends disconnected; on a disconnected
\* session it performs no socket operation, on a connected one shutdown and
\* then close, whatever either did; a second disconnect() changes nothing.
DisconnectAlwaysDisconnects ==
    /\ [](last.op = "disconnect" =>
              /\ last.exc.type = "none"
              /\ ~is_connected(Self)
              /\ last.was = None => last.trace = <<>>
              /\ last.was # None =>
                     /\ OpsOf(last.trace) = <<"shutdown", "close">>
                     /\ \A i \in 1..2 : last.trace[i].s = last.was[1]
                     /\ sockets[last.was[1]] = "closed")
    /\ [][(last.op = "disconnect" /\ last'.op = "disconnect") =>
              /\ last'.exc.type = "none"
              /\ last'.trace = <<>>
              /\ <<_socket, _default_recv_timeout, sockets, nsock>>'
                     = <<_socket, _default_recv_timeout, sockets, nsock>>
         ]_vars

\* C9 witness: both shutdown and close failed during a disconnect(), which
\* returned with the session disconnected.
DisconnectedThoughBothFailed ==
    /\ last.op = "disconnect"
    /\ last.was # None
    /\ Len(last.trace) = 2
    /\ \A i \in 1..2 : last.trace[i].res = "OSError"
    /\ last.exc.type = "none"
    /\ ~is_connected(Self)

\* C10: reconnect() shuts down and closes the current socket (if any) before
\* it creates and connects a new one; when the peer accepts it ends connected
\* on the new socket; when the connect step fails OcdConnectionError is
\* raised and the session is disconnected, the old socket closed.
ReconnectClosesThenOpens ==
    last.op = "reconnect" =>
        LET tr == last.trace
            k == IF last.was = None THEN 0 ELSE 2
        IN /\ Len(tr) >= k + 2
           /\ last.was # None =>
                  /\ tr[1].op = "shutdown" /\ tr[1].s = last.was[1]
                  /\ tr[2].op = "close" /\ tr[2].s = last.was[1]
                  /\ sockets[last.was[1]] = "closed"
           /\ tr[k + 1].op = "socket" /\ tr[k + 1].s = nsock
           /\ tr[k + 2].op = "connect" /\ tr[k + 2].s = nsock
           /\ Some(nsock) # last.was
           /\ Accepted(last) =>
                  /\ last.exc.type = "none"
                  /\ _socket = Some(nsock)
                  /\ HoldsOpenSocket
           /\ ~Accepted(last) =>
                  /\ last.exc.type = "OcdConnectionError"
                  /\ ~is_connected(Self)

\* C10 witness: a reconnect() on a connected session could not connect; the
\* old socket is closed and the session disconnected.
ReconnectFailedOldClosed ==
    /\ last.op = "reconnect"
    /\ last.was # None
    /\ last.exc.type = "OcdConnectionError"
    /\ sockets[last.was[1]] = "closed"
    /\ ~is_connected(Self)

\* C11: set_default_timeout(t) and raw_cmd(cmd, timeout=t) with t <= 0 raise
\* ValueError, perform no socket operation and leave the default timeout,
\* the handle and the socket it names as they were.
NonPositiveTimeoutRejected ==
    (/\ last.op \in {"set_default_timeout", "raw_cmd"}
     /\ last.timeout # None
     /\ last.timeout[1] <= 0)
    => /\ last.exc.type = "ValueError"
       /\ last.trace = <<>>
       /\ _default_recv_timeout = last.wasDefault
       /\ _socket = last.was
       /\ _socket # None => HoldsOpenSocket

\* C11 witness: a raw_cmd with timeout 0 was refused on a connected session
\* whose default timeout had been changed, and both are as before.
ZeroTimeoutRefusedWhileConnected ==
    /\ last.op = "raw_cmd"
    /\ last.timeout = Some(0)
    /\ last.exc.type = "ValueError"
    /\ HoldsOpenSocket
    /\ _default_recv_timeout # DEFAULT_RECV_TIMEOUT

\* C12: raw_cmd with a valid timeout on a disconnected session raises
\* OcdConnectionError "Not connected", performs no socket operation and
\* leaves the session disconnected.
RawCmdNeedsConnection ==
    (/\ last.op = "raw_cmd"
     /\ last.was = None
     /\ (last.timeout = None \/ last.timeout[1] > 0))
    => /\ last.exc.type = "OcdConnectionError"
       /\ last.exc.msg = "Not connected"
       /\ last.ret = None
       /\ last.trace = <<>>
       /\ ~is_connected(Self)

\* C12 witness: a raw_cmd with an explicit positive timeout was refused on a
\* session that has never been connected.
RawCmdRefusedNeverConnected ==
    /\ last.op = "raw_cmd"
    /\ last.timeout # None
    /\ last.exc.msg = "Not connected"
    /\ nsock = 0
    /\ ~is_connected(Self)

\* select.select reported the socket readable before the command was sent.
PrematureBytes ==
    /\ last.op = "raw_cmd"
    /\ \E i \in 1..Len(last.trace) : last.trace[i].op = "select" /\ last.trace[i].data # <<>>

\* C13: when bytes are readable as raw_cmd is called, it raises
\* OcdConnectionError without a send or a recv, the socket is closed exactly
\* once and the session is disconnected.
PrematureBytesAbortExchange ==
    PrematureBytes
    => /\ last.exc.type = "OcdConnectionError"
       /\ last.exc.msg = "Received unexpected bytes from OpenOCD before the command was even sent."
       /\ Count(last.trace, "send") = 0
       /\ Count(last.trace, "recv") = 0
       /\ Count(last.trace, "close") = 1
       /\ last.was # None
       /\ sockets[last.was[1]] = "closed"
       /\ ~is_connected(Self)

\* C13 witness: premature bytes were found on the second connection of the
\* session, which is closed and dropped.
PrematureBytesOnSecondSocket ==
    /\ PrematureBytes
    /\ last.was = Some(2)
    /\ OpsOf(last.trace) = <<"select", "close">>
    /\ ~is_connected(Self)

\* The indices of the trace at which raw_cmd entered its receive phase
\* (settimeout(RECV_POLL_TIMEOUT)) and at which it called send.
ReceivePhaseAt(trace) ==
    {i \in 1..Len(trace) : trace[i].op = "settimeout" /\ trace[i].data = <<RECV_POLL_TIMEOUT>>}
SendsAt(trace) == {i \in 1..Len(trace) : trace[i].op = "send"}

\* C14: a raw_cmd that proceeds to its receive phase has first handed the
\* complete request to the peer: one send, made before the receive phase,
\* that took all UTF-8 bytes of the command followed by the delimiter.
RequestCompleteBeforeReceive ==
    (last.op = "raw_cmd" /\ ReceivePhaseAt(last.trace) # {})
    => /\ Cardinality(SendsAt(last.trace)) = 1
       /\ \A i \in SendsAt(last.trace) :
              /\ \A j \in ReceivePhaseAt(last.trace) : i < j
              /\ last.trace[i].data = Utf8Encode(last.cmd) \o <<COMMAND_DELIMITER>>
              /\ last.trace[i].res = "ok"

\* What holds of the code for C14: the receive phase follows exactly one call
\* of send, which was given the complete request, whatever part of it the
\* socket took.
RequestGivenToOneSend ==
    (last.op = "raw_cmd" /\ ReceivePhaseAt(last.trace) # {})
    => /\ Cardinality(SendsAt(last.trace)) = 1
       /\ \A i \in SendsAt(last.trace) :
              /\ \A j \in ReceivePhaseAt(last.trace) : i < j
              /\ last.trace[i].data = Utf8Encode(last.cmd) \o <<COMMAND_DELIMITER>>
              /\ last.trace[i].res \in {"ok", "short"}

\* A response was returned to a command of which the socket had taken only
\* a part.
AnsweredAfterShortSend ==
    /\ last.op = "raw_cmd"
    /\ last.exc.type = "none"
    /\ \E i \in SendsAt(last.trace) : last.trace[i].res = "short"

\* The last call was a raw_cmd that returned a response.
Succeeded == last.op = "raw_cmd" /\ last.exc.type = "none"

\* C15: a successful raw_cmd returns the UTF-8 decoding of exactly the bytes
\* received before the delimiter, in arrival order, however the response was
\* split into recv chunks and whatever poll timeouts came between them.
ResponseIsDecodedBytes ==
    Succeeded
    => LET d == RecvData(last.trace)
           text == Utf8Decode(SubSeq(d, 1, Len(d) - 1))
       IN /\ Len(d) >= 1
          /\ d[Len(d)] = COMMAND_DELIMITER
          /\ text # None
          /\ last.ret = Some(Text(last.received, text[1]))

\* C15 witness: the two bytes of é arrived in two chunks with a poll timeout
\* between them, and the response is the one character é.
SplitCharacterDecoded ==
    /\ Succeeded
    /\ [i \in 1..Len(last.trace) |-> last.trace[i].res]
           = <<"ok", "ok", "ok", "ok", "ok", "socket.timeout", "ok">>
    /\ RecvData(last.trace) = <<195, 169, COMMAND_DELIMITER>>
    /\ last.ret = Some(<<233>>)

\* The bytes received hold the delimiter somewhere before their last byte.
DelimiterNotLast ==
    /\ last.op = "raw_cmd"
    /\ LET d == RecvData(last.trace)
       IN Find(d, COMMAND_DELIMITER) # 0 /\ Find(d, COMMAND_DELIMITER) # Len(d)

\* C16: when the receive buffer holds the delimiter anywhere but as its last
\* byte, raw_cmd raises OcdConnectionError, returns no response text and the
\* session is disconnected, its socket closed.
BytesAfterDelimiterRejected ==
    DelimiterNotLast
    => /\ last.exc.type = "OcdConnectionError"
       /\ last.received + Len(RecvData(last.trace)) <= MAX_RESPONSE_SIZE
              => last.exc.msg = "Received extra unexpected byte(s) after the command response delimiter!"
       /\ last.ret = None
       /\ ~is_connected(Self)
       /\ sockets[last.was[1]] = "closed"

\* C16 witness: a chunk brought the delimiter followed by a second delimiter
\* after an earlier chunk of text, and the session was torn down.
SecondDelimiterRejected ==
    /\ DelimiterNotLast
    /\ RecvData(last.trace) = <<97, COMMAND_DELIMITER, COMMAND_DELIMITER>>
    /\ Count(last.trace, "recv") = 2
    /\ last.exc.type = "OcdConnectionError"
    /\ ~is_connected(Self)

\* A recv of the call returned b"".
EmptyReadAt(trace) ==
    {i \in 1..Len(trace) : trace[i].op = "recv" /\ trace[i].res = "ok" /\ trace[i].data = <<>>}

\* C17: a zero-length read in the receive loop makes raw_cmd raise
\* OcdConnectionError right after that recv (only the close of the teardown
\* follows it), whatever was received before is not returned, and the
\* session is disconnected.
EmptyReadEndsExchange ==
    (last.op = "raw_cmd" /\ EmptyReadAt(last.trace) # {})
    => /\ last.exc.type = "OcdConnectionError"
       /\ last.exc.msg = "Connection closed by OpenOCD"
       /\ last.ret = None
       /\ \A i \in EmptyReadAt(last.trace) :
              /\ Len(last.trace) = i + 1
              /\ last.trace[i + 1].op = "close"
              /\ \A j \in 1..(i - 1) : last.trace[j].op = "recv" => last.trace[j].data # <<>> \/ last.trace[j].res # "ok"
       /\ ~is_connected(Self)
       /\ sockets[last.was[1]] = "closed"

\* C17 witness: the peer closed the connection after part of a response and
\* a poll timeout; the part is dropped and the session disconnected.
ClosedAfterPartialResponse ==
    /\ last.op = "raw_cmd"
    /\ EmptyReadAt(last.trace) # {}
    /\ RecvData(last.trace) = <<97>>
    /\ Count(last.trace, "recv") = 3
    /\ last.ret = None
    /\ ~is_connected(Self)

\* The number of bytes the call has received in all.
TotalReceived == last.received + Len(RecvData(last.trace))

\* Every recv of the call handed over bytes or ran into the poll timeout,
\* and the bytes are UTF-8 text followed by the delimiter as their last byte.
WellFormedResponse ==
    /\ last.op = "raw_cmd"
    /\ \A i \in 1..Len(last.trace) :
           last.trace[i].op = "recv" =>
               \/ last.trace[i].res = "socket.timeout"
               \/ last.trace[i].res = "ok" /\ last.trace[i].data # <<>>
    /\ LET d == RecvData(last.trace)
       IN /\ Len(d) >= 1
          /\ Find(d, COMMAND_DELIMITER) = Len(d)
          /\ Utf8Decode(SubSeq(d, 1, Len(d) - 1)) # None

\* C18: a well-formed response of exactly MAX_RESPONSE_SIZE bytes, delimiter
\* included, is returned; a response whose accumulated length exceeds
\* MAX_RESPONSE_SIZE raises OcdConnectionError at the recv that crosses the
\* cap (only the close of the teardown follows it), also when its last byte
\* is the delimiter, and the session is disconnected.
ResponseSizeCap ==
    /\ (WellFormedResponse /\ TotalReceived = MAX_RESPONSE_SIZE)
       => /\ Succeeded
          /\ last.ret = Some(Text(last.received,
                                  Utf8Decode(SubSeq(RecvData(last.trace), 1,
                                                    Len(RecvData(last.trace)) - 1))[1]))
          /\ is_connected(Self)
    /\ (last.op = "raw_cmd" /\ TotalReceived > MAX_RESPONSE_SIZE)
       => /\ last.exc.type = "OcdConnectionError"
          /\ last.exc.msg = "Received too big response (exceeding {} bytes)"
          /\ last.ret = None
          /\ Len(last.trace) >= 2
          /\ last.trace[Len(last.trace)].op = "close"
          /\ last.trace[Len(last.trace) - 1].op = "recv"
          /\ TotalReceived - Len(last.trace[Len(last.trace) - 1].data) <= MAX_RESPONSE_SIZE
          /\ ~is_connected(Self)
          /\ sockets[last.was[1]] = "closed"

\* C18 witness: a response of MAX_RESPONSE_SIZE - 1 letters and the
\* delimiter, the delimiter arriving in a chunk of its own, was returned.
ResponseOfCapSizeReturned ==
    /\ WellFormedResponse
    /\ last.received = MAX_RESPONSE_SIZE - 2
    /\ RecvData(last.trace) = <<97, COMMAND_DELIMITER>>
    /\ Count(last.trace, "recv") = 2
    /\ TotalReceived = MAX_RESPONSE_SIZE
    /\ Succeeded

\* A response of MAX_RESPONSE_SIZE letters was refused when the delimiter
\* arrived as byte MAX_RESPONSE_SIZE + 1.
DelimiterBeyondCapRefused ==
    /\ last.op = "raw_cmd"
    /\ last.received = MAX_RESPONSE_SIZE
    /\ RecvData(last.trace) = <<COMMAND_DELIMITER>>
    /\ last.exc.type = "OcdConnectionError"
    /\ ~is_connected(Self)

WireText(c, capture) ==
    <<115, 101, 116, 32, 67, 77, 68, 95, 82, 69, 84, 67, 79, 68, 69, 32, 91, 32, 99,
      97, 116, 99, 104, 32, 123, 32>>
    \o (IF capture
        THEN <<99, 97, 112, 116, 117, 114, 101, 32, 123, 32>> \o c \o <<32, 125>>
        ELSE c)
    \o
    <<32, 125, 32, 67, 77, 68, 95, 79, 85, 84, 80, 85, 84, 32, 93, 32, 59, 32, 114,
      101, 116, 117, 114, 110, 32, 34, 36, 67, 77, 68, 95, 82, 69, 84, 67, 79, 68, 69,
      32, 36, 67, 77, 68, 95, 79, 85, 84, 80, 85, 84, 34, 32, 59, 32>>

\* The Command Result a cmd call produced: the one it returned or the one
\* its OcdCommandFailedError carries.
ResultsOf(call) ==
    (IF call.exc.type = "none" THEN {call.ret[1]} ELSE {})
    \cup (IF call.exc.type = "OcdCommandFailedError" THEN {call.exc.result} ELSE {})

\* C20: cmd(c, capture, throw, timeout) makes exactly one raw_cmd call, with
\* the timeout it was given and the wire text
\* 'set CMD_RETCODE [ catch { X } CMD_OUTPUT ] ; return "$CMD_RETCODE $CMD_OUTPUT" ; '
\* where X is c, or 'capture { c }' when capture is true; the Command Result
\* holds c as the command and that wire text as the wrapped command.
CmdWrapsOnce ==
    last.op = "cmd"
    => /\ last.calls = <<[cmd |-> WireText(last.cmd, last.capture), timeout |-> last.timeout]>>
       /\ \A i \in SendsAt(last.trace) :
              last.trace[i].data = Utf8Encode(WireText(last.cmd, last.capture))
                                       \o <<COMMAND_DELIMITER>>
       /\ Cardinality(SendsAt(last.trace)) <= 1
       /\ \A result \in ResultsOf(last) :
              /\ result.cmd = last.cmd
              /\ result.raw_cmd = WireText(last.cmd, last.capture)

\* C20 witness: cmd("b c", capture=True, timeout=2) returned a Command
\* Result after one exchange.
CapturedCmdReturned ==
    /\ last.op = "cmd"
    /\ last.cmd = <<98, 32, 99>>
    /\ last.capture
    /\ last.timeout = Some(2)
    /\ Len(last.calls) = 1
    /\ Count(last.trace, "send") = 1
    /\ last.exc.type = "none"
    /\ last.ret[1].retcode = 138
    /\ last.ret[1].out = <<120>>

\* The peer answered the raw_cmd of the call (of the cmd call): the bytes
\* received are UTF-8 text followed by the delimiter as their last byte;
\* Reply is that text, which raw_cmd returned.
Replied ==
    LET d == RecvData(last.trace)
    IN /\ Len(d) >= 1
       /\ Find(d, COMMAND_DELIMITER) = Len(d)
       /\ Utf8Decode(SubSeq(d, 1, Len(d) - 1)) # None
CmdReplied == last.op = "cmd" /\ Replied
Reply == Utf8Decode(SubSeq(RecvData(last.trace), 1, Len(RecvData(last.trace)) - 1))[1]

\* A text that is an optional minus sign, one or more decimal digits, and
\* then either ends or goes on with a space.
RetcodeForm(str) ==
    LET k == IF Len(str) >= 1 /\ str[1] = 45 THEN 1 ELSE 0
        n == DigitRun(str, k + 1)
    IN /\ n >= 1
       /\ (k + n = Len(str) \/ str[k + n + 1] = 32)

\* C21: for every reply that is not of that form cmd raises
\* OcdInvalidResponseError carrying the wire command and the raw reply, and
\* no Command Result comes of it.
MalformedReplyRejected ==
    (CmdReplied /\ ~RetcodeForm(Reply))
    => /\ last.exc.type = "OcdInvalidResponseError"
       /\ last.exc.raw_cmd = Some(WireText(last.cmd, last.capture))
       /\ last.exc.out = Reply
       /\ ResultsOf(last) = {}

\* What holds of the code for C21: a reply is refused unless it is of that
\* form or is of that form once the newline that ends it is taken away.
MalformedReplyRejectedButNewline ==
    (/\ CmdReplied
     /\ ~RetcodeForm(Reply)
     /\ ~(Len(Reply) >= 1 /\ Reply[Len(Reply)] = 10 /\ RetcodeForm(SubSeq(Reply, 1, Len(Reply) - 1))
          /\ Find(Reply, 32) = 0))
    => /\ last.exc.type = "OcdInvalidResponseError"
       /\ last.exc.raw_cmd = Some(WireText(last.cmd, last.capture))
       /\ last.exc.out = Reply
       /\ ResultsOf(last) = {}

\* The reply "0" and a newline gave a Command Result.
NewlineReplyAccepted ==
    /\ CmdReplied
    /\ Reply = <<48, 10>>
    /\ last.exc.type = "none"
    /\ last.ret[1].retcode = 0

\* C22: for return code r and text t, the reply 'r', a space and t parses to
\* return code r and output exactly t, and the reply 'r' alone to return
\* code r and output ''; the split is at the first space only.
ReplySplitsAtFirstSpace ==
    CmdReplied
    => \A r \in RetCodes :
           /\ Reply = IntToStr(r)
              => /\ ResultsOf(last) # {}
                 /\ \A res \in ResultsOf(last) : res.retcode = r /\ res.out = <<>>
           /\ \A t \in OutTexts :
                  Reply = IntToStr(r) \o <<32>> \o t
                  => /\ ResultsOf(last) # {}
                     /\ \A res \in ResultsOf(last) : res.retcode = r /\ res.out = t

\* C22 witness: the reply "-123 a b" gave return code -123 and output "a b".
NegativeCodeAndSpacedText ==
    /\ CmdReplied
    /\ Reply = <<45, 49, 50, 51, 32, 97, 32, 98>>
    /\ \E res \in ResultsOf(last) : res.retcode = -123 /\ res.out = <<97, 32, 98>>

\* C23: after a reply of the return-code form, cmd raises
\* OcdCommandFailedError carrying the Command Result exactly when throw is
\* true and the return code is not 0, and returns the Command Result in
\* every other case.
FailedIffThrowAndNonzero ==
    (CmdReplied /\ RetcodeForm(Reply))
    => /\ Cardinality(ResultsOf(last)) = 1
       /\ \A res \in ResultsOf(last) :
              /\ res.cmd = last.cmd
              /\ res.raw_cmd = WireText(last.cmd, last.capture)
              /\ \E r \in RetCodes \cup {3, 56} : res.retcode = r
              /\ IF last.throw /\ res.retcode # 0
                 THEN /\ last.exc.type = "OcdCommandFailedError"
                      /\ last.exc.result = res
                      /\ last.ret = None
                 ELSE /\ last.exc.type = "none"
                      /\ last.ret = Some(res)

\* C23 witness: with throw the reply "-1 a b" raised OcdCommandFailedError
\* carrying return code -1.
NegativeCodeRaised ==
    /\ CmdReplied
    /\ Reply = <<45, 49, 32, 97, 32, 98>>
    /\ last.throw
    /\ last.exc.type = "OcdCommandFailedError"
    /\ last.exc.result.retcode = -1

\* C24: __enter__ calls connect() once and, when it returns, the body runs
\* on a connected session; every way out of the body, its end or an
\* exception raised in it, goes through one __exit__ that calls disconnect()
\* exactly once, after which no socket is connected and no handle is held,
\* and the body's exception goes on to the caller.
WithBlockDisconnectsOnce ==
    /\ last.op = "__enter__"
       => /\ last.calls = <<[method |-> "connect"]>>
          /\ last.where = "body" <=> last.exc.type = "none"
          /\ last.where = "body" => is_connected(Self) /\ last.ret = Some("self")
    /\ last.where \in {"body", "raised"} => last.op \in {"__enter__", "cmd", "disconnect", "raise"}
    /\ last.where = "raised" => last.pending.type # "none"
    /\ last.where = "after"
       => /\ last.op = "__exit__"
          /\ last.calls = <<[method |-> "disconnect"]>>
          /\ ~is_connected(Self)
          /\ \A s \in SockIds : sockets[s] # "connected"
          /\ last.exc = last.pending

\* C24 witness: a cmd of the body raised OcdCommandFailedError on a session
\* that stayed connected, and __exit__ closed the socket on the way out.
WithBlockLeftByException ==
    /\ last.where = "after"
    /\ last.pending.type = "OcdCommandFailedError"
    /\ last.exc = last.pending
    /\ last.was # None
    /\ Count(last.trace, "close") = 1
    /\ _socket = None

\* The calls made on the base client: a raw_cmd with the wire text of the
\* command c and no timeout, and a disconnect.
RawCmdCall(c) == [cmd |-> WireText(c, FALSE), timeout |-> None]
DisconnectCall == [method |-> "disconnect"]

\* C25: shutdown() first makes one raw_cmd call with the envelope of
\* 'shutdown'; whatever return code the reply carries it does not raise
\* but goes on to disconnect(), and whenever it returns the session holds
\* no handle and no socket is connected. exit() calls disconnect() and
\* sends nothing.
ShutdownAndExitDisconnect ==
    /\ last.op = "shutdown"
       => /\ Len(last.calls) >= 1
          /\ last.calls[1] = RawCmdCall(SHUTDOWN)
          /\ last.exc.type # "OcdCommandFailedError"
          /\ (Replied /\ RetcodeForm(Reply)) => last.exc.type = "none"
          /\ last.exc.type = "none"
             => /\ last.calls = <<RawCmdCall(SHUTDOWN), DisconnectCall>>
                /\ last.ret = None
                /\ ~is_connected(Self)
                /\ \A s \in SockIds : sockets[s] # "connected"
    /\ last.op = "exit"
       => /\ last.calls = <<DisconnectCall>>
          /\ last.exc.type = "none"
          /\ Count(last.trace, "send") = 0
          /\ ~is_connected(Self)
          /\ \A s \in SockIds : sockets[s] # "connected"

\* C25 witness: the peer answered the shutdown command with a negative
\* return code and shutdown() returned, the socket shut down and closed.
ShutdownReturnedOnNonzeroCode ==
    /\ last.op = "shutdown"
    /\ Replied
    /\ Reply = <<45, 49>>
    /\ last.exc.type = "none"
    /\ Count(last.trace, "shutdown") = 1
    /\ sockets[1] = "closed"

\* The peer answered the cmd call of read_memory with return code 0 and a
\* space; MemOut is the output that follows, Tokens the pieces between the
\* spaces of the output without the white space around it.
ReadMemoryReplied ==
    /\ last.op = "read_memory"
    /\ Replied
    /\ Len(Reply) >= 2
    /\ Reply[1] = 48
    /\ Reply[2] = 32
MemOut == SubSeq(Reply, 3, Len(Reply))
Tokens == Split(Strip(MemOut))

\* "0x" followed by one or more hexadecimal digits, and nothing else.
HexToken(str) ==
    /\ Len(str) >= 3
    /\ str[1] = 48
    /\ str[2] = 120
    /\ \A i \in 3..Len(str) : IsHexDigit(str[i])

\* C26: read_memory raises OcdInvalidResponseError whenever the number of
\* tokens differs from count or a token is not "0x" followed by hexadecimal
\* digits, and otherwise returns the values of the tokens, in order.
ReadMemoryChecksTokens ==
    ReadMemoryReplied
    => IF Len(Tokens) # last.args.count \/ \E i \in 1..Len(Tokens) : ~HexToken(Tokens[i])
       THEN last.exc.type = "OcdInvalidResponseError"
       ELSE /\ last.exc.type = "none"
            /\ last.ret = Some([i \in 1..Len(Tokens) |-> ParseHex(Tokens[i])])

\* A token that ends in a newline went through: read_memory returned the
\* values of "0x1", newline, and "0x2".
NewlineTokenAccepted ==
    /\ ReadMemoryReplied
    /\ MemOut = <<48, 120, 49, 10, 32, 48, 120, 50>>
    /\ last.exc.type = "none"
    /\ last.ret = Some(<<PyInt(FALSE, <<1>>), PyInt(FALSE, <<2>>)>>)

\* The arguments of the last memory command are not valid: the address is
\* negative, the width is none of 8, 16, 32, 64, the count is below 1, no
\* value is given, a value is negative or a value is 2^width or more (it has
\* more than width / 4 hexadecimal digits).
BadAccessArgs == last.args.addr.neg \/ last.args.bit_width \notin {8, 16, 32, 64}
BadReadArgs == BadAccessArgs \/ last.args.count < 1
BadWriteArgs ==
    \/ BadAccessArgs
    \/ last.args.values = <<>>
    \/ \E i \in 1..Len(last.args.values) :
           \/ last.args.values[i].neg
           \/ 4 * Len(last.args.values[i].mag) > last.args.bit_width

\* C27: read_memory and write_memory raise ValueError for arguments that are
\* not valid, having made no call on the base client and no socket
\* operation, and only for those; a write of 2^width - 1 alone is sent and
\* a write of 2^width alone is refused, for each width.
MemoryArgsChecked ==
    /\ last.op = "read_memory"
       => IF BadReadArgs
          THEN last.exc.type = "ValueError" /\ last.calls = <<>> /\ last.trace = <<>>
          ELSE last.exc.type # "ValueError" /\ Len(last.calls) = 1
    /\ last.op = "write_memory"
       => /\ IF BadWriteArgs
             THEN last.exc.type = "ValueError" /\ last.calls = <<>> /\ last.trace = <<>>
             ELSE last.exc.type # "ValueError" /\ Len(last.calls) = 1
          /\ \A w \in {8, 16, 32, 64} :
                 (~last.args.addr.neg /\ last.args.bit_width = w)
                 => /\ last.args.values = <<PyInt(FALSE, Rep(15, w \div 4))>>
                       => /\ last.exc.type # "ValueError"
                          /\ last.calls
                             = <<RawCmdCall(WriteMemoryCmd(last.args.addr, w, last.args.values,
                                                           last.args.phys))>>
                    /\ last.args.values = <<PyInt(FALSE, <<1>> \o Rep(0, w \div 4))>>
                       => last.exc.type = "ValueError"

\* C27 witness: write_memory(0x1000, 64, [0xffffffffffffffff]) was sent as
\* "write_memory 0x1000 64 {0xffffffffffffffff}" and returned.
MaxValueWritten ==
    /\ last.op = "write_memory"
    /\ last.args.bit_width = 64
    /\ last.args.values = <<PyInt(FALSE, Rep(15, 16))>>
    /\ ~last.args.phys
    /\ last.exc.type = "none"
    /\ Len(last.calls) = 1
    /\ last.calls[1].cmd = WireText(<<119, 114, 105, 116, 101, 95, 109, 101, 109, 111, 114, 121, 32, 48, 120, 49, 48, 48, 48, 32, 54, 52, 32, 123, 48, 120, 102, 102, 102, 102, 102, 102, 102, 102, 102, 102, 102, 102, 102, 102, 102, 102, 125>>, FALSE)

\* C28: a record that parse_bp_entry returns is of the kind hardware or
\* software and has an original instruction exactly when it is software;
\* when the current and the legacy line of one breakpoint are parsed and
\* one gives a record, the other gives an equal record.
BpRecordKindAndLayouts ==
    last.op = "parse_bp_entry"
    => /\ last.exc.type = "none"
          => /\ last.ret # None
             /\ last.ret[1].bp_type \in {"hw", "sw"}
             /\ last.ret[1].orig_instr # None <=> last.ret[1].bp_type = "sw"
             /\ last.ret[1].bp_type = "hw" => last.ret[1].orig_instr = None
       /\ \A bp \in Breakpoints :
              (/\ {last.prev.line, last.line} = {CurrentLine(bp), LegacyLine(bp)}
               /\ last.prev.op = "parse_bp_entry"
               /\ last.prev.exc.type = "none" \/ last.exc.type = "none")
              => /\ last.exc.type = "none"
                 /\ last.prev.exc.type = "none"
                 /\ last.ret = last.prev.ret

\* C28 witness: the legacy line of the software breakpoint at 0x1000, of 8
\* bytes, over the instruction 0xabcd1234, parsed to the record its current
\* line had given.
LegacySoftwareLineParsedAlike ==
    /\ last.op = "parse_bp_entry"
    /\ last.prev.line = <<83, 111, 102, 116, 119, 97, 114, 101, 32, 98, 114, 101, 97, 107, 112, 111, 105, 110, 116, 40, 73, 86, 65, 41, 58, 32, 97, 100, 100, 114, 61, 48, 120, 48, 48, 48, 48, 49, 48, 48, 48, 44, 32, 108, 101, 110, 61, 48, 120, 56, 44, 32, 111, 114, 105, 103, 95, 105, 110, 115, 116, 114, 61, 48, 120, 97, 98, 99, 100, 49, 50, 51, 52>>
    /\ last.line = <<73, 86, 65, 32, 98, 114, 101, 97, 107, 112, 111, 105, 110, 116, 58, 32, 48, 120, 48, 48, 48, 48, 49, 48, 48, 48, 44, 32, 48, 120, 56, 44, 32, 48, 120, 97, 98, 99, 100, 49, 50, 51, 52>>
    /\ last.ret = last.prev.ret
    /\ last.ret = Some(BpInfo(PyInt(FALSE, <<1, 0, 0, 0>>), PyInt(FALSE, <<8>>), "sw",
                              Some(PyInt(FALSE, <<10, 11, 12, 13, 1, 2, 3, 4>>))))

\* C29: the current and the legacy line of a context or hybrid breakpoint
\* make parse_bp_entry raise NotImplementedError, a line of no layout makes
\* it raise the parsing error with "Could not parse"; it raises nothing
\* else, and when it raises it gives no record.
UnsupportedAndMalformedLines ==
    last.op = "parse_bp_entry"
    => /\ \A bp \in Breakpoints :
              (bp.bp_type \in {"context", "hybrid"}
               /\ last.line \in {CurrentLine(bp), LegacyLine(bp)})
              => last.exc.type = "NotImplementedError"
       /\ last.line \in MalformedLines
          => /\ last.exc.type = "_OcdParsingError"
             /\ last.exc.msg = "Could not parse"
             /\ last.exc.msgArg = Some(last.line)
       /\ last.exc.type \in {"none", "NotImplementedError", "_OcdParsingError"}
       /\ last.exc.type # "none" => last.ret = None

\* C29 witness: the legacy line of a context breakpoint was refused as not
\* implemented after a malformed line had been refused as unparsable.
ContextLineAfterMalformedLine ==
    /\ last.op = "parse_bp_entry"
    /\ last.line = <<67, 111, 110, 116, 101, 120, 116, 32, 98, 114, 101, 97, 107, 112, 111, 105, 110, 116, 58, 32, 48, 120, 49, 48, 49, 48, 44, 32, 48, 120, 52, 44, 32, 48>>
    /\ last.exc.type = "NotImplementedError"
    /\ last.prev.line = <<83, 111, 102, 116, 119, 97, 114, 101, 32, 98, 114, 101, 95, 95, 88, 89, 90, 95, 95, 107, 40, 73, 86, 65, 41, 58, 32, 97, 100, 100, 114, 61, 48, 120, 48, 44, 32, 108, 101, 110, 61, 48, 120, 56, 44, 32, 111, 114, 105, 103, 95, 105, 110, 115, 116, 114, 61, 48, 120, 49>>
    /\ last.prev.exc.type = "_OcdParsingError"
    /\ last.ret = None
    /\ last.prev.ret = None

\* C30: a socket on which a raw_cmd ended in the timeout error or in
\* OcdConnectionError is closed and no longer held, and no later call makes
\* a socket operation on it: the bytes a later raw_cmd receives and returns
\* come from another socket.
StaleAnswersNeverRead ==
    /\ \A s \in last.stale : sockets[s] = "closed" /\ _socket # Some(s)
    /\ \A i \in 1..Len(last.trace) : last.trace[i].s \notin last.staleBefore
    /\ (last.op = "raw_cmd" /\ last.exc.type = "none")
       => /\ last.was # None
          /\ last.was[1] \notin last.stale
          /\ \A i \in 1..Len(last.trace) : last.trace[i].s = last.was[1]
          /\ last.ret # None
          /\ Utf8Encode(last.ret[1]) \o <<COMMAND_DELIMITER>> = RecvData(last.trace)

\* C30 witness: a raw_cmd on the first socket ended in the timeout error
\* or in OcdConnectionError, and a later raw_cmd returned the response it
\* received on the second socket.
AnsweredOnNewConnection ==
    /\ last.op = "raw_cmd"
    /\ last.exc.type = "none"
    /\ last.staleBefore = {1}
    /\ last.was = Some(2)
    /\ last.ret = Some(<<97>>)

\* C34 (as claimed): raw_cmd ends only by returning a string or by raising
\* ValueError, OcdConnectionError or OcdCommandTimeout; no exception of the
\* socket calls and no encoding or decoding error reaches the caller.
RawCmdEndsInDocumentedWays ==
    last.op = "raw_cmd"
    => /\ last.exc.type \in {"none", "ValueError", "OcdConnectionError", "OcdCommandTimeout"}
       /\ last.exc.type = "none" => last.ret # None

\* C34: apart from the exceptions that send and recv raise themselves and
\* the errors of encode and decode, raw_cmd ends in the three documented
\* errors or returns a string.
RawCmdEndsInDocumentedWaysOrEscapes ==
    last.op = "raw_cmd"
    => /\ last.exc.type \in {"none", "ValueError", "OcdConnectionError", "OcdCommandTimeout",
                             "OSError", "socket.timeout", "UnicodeDecodeError", "UnicodeEncodeError"}
       /\ last.exc.type = "none" => last.ret # None

\* C34: the send of a raw_cmd raised OSError and the caller received it.
SendErrorReachedCaller ==
    /\ last.op = "raw_cmd"
    /\ last.exc.type = "OSError"
    /\ Count(last.trace, "recv") = 0
    /\ is_connected(Self)

\* C39: the default receive timeout changes only in a set_default_timeout
\* call that returns, and then to the value given: connect, disconnect,
\* reconnect, raw_cmd (with or without a timeout argument, returning or
\* torn down after an error) and a refused set_default_timeout leave it as
\* it was.
DefaultTimeoutChangesOnlyWhenSet ==
    [][(_default_recv_timeout' # _default_recv_timeout)
       => /\ last'.op = "set_default_timeout"
          /\ last'.exc.type = "none"
          /\ last'.timeout = Some(_default_recv_timeout')]_vars

\* C39 witness: the default having been set to 2, a reconnect() gave the
\* session its second socket and the default is still 2.
DefaultTimeoutSurvivedReconnect ==
    /\ last.op = "reconnect"
    /\ last.exc.type = "none"
    /\ last.was = Some(1)
    /\ _socket = Some(2)
    /\ last.wasDefault = 2
    /\ _default_recv_timeout = 2

\* C32: the socket operations of one raw_cmd call are, in this order, one
\* readability poll, at most one send of the request (none when the poll
\* found bytes) and, only after a send, zero or more recvs, all on the
\* socket the session held; a close of the forced teardown comes after all
\* of them; a raw_cmd that is refused touches no socket, and no other call
\* polls, sends or receives.
RawCmdSocketOpsInOrder ==
    LET t == last.trace
        io == {i \in 1..Len(t) : t[i].op \in {"select", "send", "recv"}}
    IN /\ last.op # "raw_cmd" => io = {}
       /\ (last.op = "raw_cmd" /\ ~Exchanged) => t = <<>>
       /\ Exchanged
          => /\ t[1].op = "select"
             /\ Count(t, "select") = 1
             /\ Count(t, "send") <= 1
             /\ Count(t, "send") = 0 => Count(t, "recv") = 0
             /\ \A i \in io : t[i].s = last.was[1]
             /\ \A i \in io, j \in io : (t[i].op = "send" /\ t[j].op = "recv") => i < j
             /\ \A i \in io, j \in 1..Len(t) : t[j].op \in {"shutdown", "close"} => i < j

\* C32 witness: a raw_cmd polled, sent its request and returned after two
\* recvs, the first of which ran into the poll timeout.
PolledSentAndReceivedTwice ==
    /\ Exchanged
    /\ last.exc.type = "none"
    /\ OpsOf(last.trace) = <<"select", "settimeout", "send", "settimeout", "recv", "recv">>
    /\ last.trace[5].res = "socket.timeout"

\* C36 (as claimed): the bytes a raw_cmd gives to send hold the delimiter
\* byte once, as their last byte, whatever the command text.
OneDelimiterOnTheWire ==
    last.op = "raw_cmd"
    => \A i \in 1..Len(last.trace) :
           last.trace[i].op = "send"
           => /\ last.trace[i].data # <<>>
              /\ Find(last.trace[i].data, COMMAND_DELIMITER) = Len(last.trace[i].data)

\* C36: the request of a command text without the delimiter character holds
\* the delimiter once, as its last byte.
OneDelimiterUnlessInCommand ==
    (last.op = "raw_cmd" /\ Find(last.cmd, COMMAND_DELIMITER) = 0)
    => \A i \in 1..Len(last.trace) :
           last.trace[i].op = "send"
           => /\ last.trace[i].data # <<>>
              /\ Find(last.trace[i].data, COMMAND_DELIMITER) = Len(last.trace[i].data)

\* C36: the command text a, delimiter character, b was sent as four bytes,
\* the second and the fourth the delimiter, and a response to it was returned.
DelimiterInsideRequest ==
    /\ last.op = "raw_cmd"
    /\ last.cmd = <<97, COMMAND_DELIMITER, 98>>
    /\ last.exc.type = "none"
    /\ \E i \in 1..Len(last.trace) :
           /\ last.trace[i].op = "send"
           /\ last.trace[i].res = "ok"
           /\ last.trace[i].data = <<97, COMMAND_DELIMITER, 98, COMMAND_DELIMITER>>

\* C31 (as claimed): the text a raw_cmd returns is made of the bytes the
\* peer sent in answer to its request and of no others.
ReturnsOnlyTheAnswer ==
    (last.op = "raw_cmd" /\ last.exc.type = "none")
    => /\ last.ret # None
       /\ Utf8Encode(last.ret[1]) \o <<COMMAND_DELIMITER>> = last.args.answer

\* C31 (amended): when bytes wait on the socket at the poll, raw_cmd sends
\* nothing, receives nothing, raises OcdConnectionError and disconnects.
\* Otherwise the text it returns is what arrived after the poll up to the
\* first delimiter, stray bytes included, and what arrived behind that
\* delimiter lies unread on the socket.
ReturnsWhatArrivedAfterThePoll ==
    /\ (last.op = "raw_cmd" /\ last.args.waiting # <<>>)
       => /\ last.exc.type = "OcdConnectionError"
          /\ last.exc.msg = "Received unexpected bytes from OpenOCD before the command was even sent."
          /\ Count(last.trace, "send") = 0
          /\ Count(last.trace, "recv") = 0
          /\ _socket = None
    /\ (last.op = "raw_cmd" /\ last.exc.type = "none")
       => /\ last.args.waiting = <<>>
          /\ last.ret # None
          /\ Utf8Encode(last.ret[1]) \o <<COMMAND_DELIMITER>> \o last.args.unread
             = last.args.stray \o last.args.answer
          /\ Find(Utf8Encode(last.ret[1]), COMMAND_DELIMITER) = 0

\* C31 witness: an x arrived between the poll and the first recv, the peer
\* answered the request with a, and raw_cmd returned xa.
StrayByteReturned ==
    /\ last.op = "raw_cmd"
    /\ last.exc.type = "none"
    /\ last.args.stray = <<120>>
    /\ last.args.answer = <<97, COMMAND_DELIMITER>>
    /\ last.ret = Some(<<120, 97>>)

\* C31: a stray frame x was returned as the response, and the answer a, left
\* unread, was found by the poll of the next raw_cmd, which disconnected.
StrayFrameReturnedAnswerFoundLater ==
    /\ last.op = "raw_cmd"
    /\ last.args.waiting = <<97, COMMAND_DELIMITER>>
    /\ last.exc.type = "OcdConnectionError"
    /\ _socket = None

\* C35: a cmd that raised OcdInvalidResponseError or OcdCommandFailedError
\* has closed and opened no socket and leaves the session connected on the
\* socket it held; the cmd that follows it without a reconnect finds the
\* session connected on that socket and, its timeout being valid, sends its
\* request on it.
CmdFailureKeepsConnection ==
    /\ (last.op = "cmd" /\ last.exc.type \in {"OcdInvalidResponseError", "OcdCommandFailedError"})
       => /\ last.was # None
          /\ _socket = last.was
          /\ HoldsOpenSocket
          /\ nsock = 1
          /\ Count(last.trace, "shutdown") = 0
          /\ Count(last.trace, "close") = 0
    /\ (last.op = "cmd" /\ last.after \in {"OcdInvalidResponseError", "OcdCommandFailedError"})
       => /\ last.was = Some(1)
          /\ ~(last.exc.type = "OcdConnectionError" /\ last.exc.msg = "Not connected")
          /\ (last.timeout = None \/ last.timeout[1] > 0)
             => \E i \in 1..Len(last.trace) :
                    /\ last.trace[i].op = "send"
                    /\ last.trace[i].s = 1
                    /\ last.trace[i].data
                       = Utf8Encode(WireText(last.cmd, last.capture)) \o <<COMMAND_DELIMITER>>

\* C35 witness: the cmd that followed a cmd refused with
\* OcdInvalidResponseError returned the result of a reply with return code 0,
\* received on the same first socket.
CmdAnsweredAfterInvalidResponse ==
    /\ last.op = "cmd"
    /\ last.after = "OcdInvalidResponseError"
    /\ last.exc.type = "none"
    /\ last.ret # None
    /\ last.ret[1].retcode = 0
    /\ _socket = Some(1)
    /\ nsock = 1
    /\ Count(last.trace, "recv") = 1

\* C38: no call ends in an AssertionError and no assertion of _close_socket
\* fails: every poll, send, recv, settimeout, shutdown and close is made on a
\* socket object the session held, and an OcdCommandFailedError carries a
\* result whose return code is not 0.
NoAssertionFails ==
    /\ last.exc.type # "AssertionError"
    /\ \A i \in 1..Len(last.trace) :
           /\ last.trace[i].op # "assert"
           /\ last.trace[i].res # "AssertionError"
           /\ last.trace[i].s \in 1..nsock
    /\ last.exc.type = "OcdCommandFailedError" => last.exc.result.retcode # 0

\* C38 witness: a cmd of the body ran into the timeout, which closed the
\* socket; __exit__ then called disconnect() on the disconnected session,
\* which touched no socket.
ExitAfterTeardownClosesNothing ==
    /\ last.op = "__exit__"
    /\ last.pending.type = "OcdCommandTimeout"
    /\ last.exc.type = "OcdCommandTimeout"
    /\ last.was = None
    /\ last.calls = <<[method |-> "disconnect"]>>
    /\ last.trace = <<>>
    /\ _socket = None

\* The output the peer gave to the list command of the last call.
ListOutput ==
    CASE last.args.form = "whole" -> last.args.out
      [] last.args.form = "open" -> SubSeq(last.args.out, 1, Len(last.args.out) - 1)
      [] last.args.form = "late" -> <<10>> \o last.args.out

\* The lines of that output the command parses, and what the parser does
\* with each of them.
ListLines ==
    IF last.op = "list_bp" THEN SplitLines(Strip(ListOutput)) ELSE SplitLines(ListOutput)
ListParsed ==
    [i \in 1..Len(ListLines) |->
        IF last.op = "list_bp" THEN parse_bp_entry(ListLines[i]) ELSE parse_wp_entry(ListLines[i])]

RawCmdTerminates ==
    /\ [](last.op = "raw_cmd"
          => \A i \in 1..Len(last.trace) :
                 /\ last.trace[i].op = "settimeout"
                    => last.trace[i].data
                       = (IF i < Len(last.trace) /\ last.trace[i + 1].op = "send"
                          THEN <<SEND_TIMEOUT>> ELSE <<RECV_POLL_TIMEOUT>>)
                 /\ (last.exc.type = "Pending" /\ last.trace[i].op = "send")
                    => last.trace[Len(last.trace)].op = "settimeout"
                 /\ last.trace[i].op = "send" => (i > 1 /\ last.trace[i - 1].op = "settimeout")
                 /\ last.trace[i].op = "recv" => last.args.elapsed < last.args.curr_timeout)
    /\ (last.op = "raw_cmd" /\ last.exc.type = "Pending") ~> (last.op = "raw_cmd" /\ last.exc.type # "Pending")

\* C33 witness: the peer sent one byte of a response and nothing more; the
\* call ended in the timeout error at the deadline of its timeout of two
\* seconds, and the socket was closed.
TimedOutWaitingForTheRest ==
    /\ last.op = "raw_cmd"
    /\ last.exc.type = "OcdCommandTimeout"
    /\ last.args.timeout = Some(2)
    /\ last.args.elapsed = 2
    /\ last.args.recv_data = Buf(0, <<97>>)
    /\ Count(last.trace, "recv") = 0
    /\ _socket = None
====
